---------------------------- MODULE Spec2Model ----------------------------
(***************************************************************************)
(* Model of the build-kb research endpoint (src/api/research/build-kb.ts,  *)
(* second definition of the handler, lines 102-370): the URL normalizer,   *)
(* the bypass rule resolver, the sitemap / homepage discovery pipeline and *)
(* the ranking of the crawl plan.                                          *)
(*                                                                         *)
(* JavaScript strings are TLA+ strings (TLC evaluates Len, \o, SubSeq on   *)
(* them); `undefined` is the empty set and a defined value v is {v}.       *)
(*                                                                         *)
(* Domain of the URL parser model (new URL): ASCII input without NUL and    *)
(* without backtick, http and https as the special schemes, no "%" in the  *)
(* input, no IPv6 literal, no host whose last label is a number, no host   *)
(* label that starts with "xn--" (Punycode is not decoded), no dot         *)
(* segments and no "^" in paths, no space at the end of an opaque path.    *)
(* Rule tables                                                             *)
(* are plain JSON objects whose rules hold a string or nothing as cookie   *)
(* and as token, and no host is the name of a member of Object.prototype.  *)
(* tenant_id and company_name (Date.now, echo of the body) are not         *)
(* modelled.                                                               *)
(*                                                                         *)
(* A second part models the tool loops of the agent handlers               *)
(* (src/api/agent/run.ts, src/api/agent/chat.ts, the two handlers of       *)
(* src/unnamed/part_002 and the handler of src/unnamed/part_004):          *)
(* the list of messages that each model call sends.                        *)
(***************************************************************************)
EXTENDS Integers, Sequences, FiniteSets, TLC

VARIABLES
    pc,             \* position of the handler: "init", "r1", "r1b", "r2", "r2b", "done"
                    \* ("idle" in the harness of the pure functions)
    method,         \* req.method
    body,           \* req.body: the four accepted URL fields
    env,            \* process.env.RESEARCH_BYPASS_RULES, as JSON.parse sees it
    absolute,       \* handler local
    host,           \* handler local
    bypassCookie,   \* handler local: {} or {cookie}
    discovered,     \* handler local: sequence of URLs
    source,         \* handler local: "sitemap" | "homepage" | "none"
    blocked,        \* handler local
    blocked_reason, \* handler local: {} or {reason}
    fetches,        \* history: the fetchText calls issued, in order
    inflight,       \* number of fetchText calls awaiting their result
    rulesRead,      \* history: readBypassRules was called
    responses,      \* the responses sent on res, in order
    call,           \* harness: the function applied and its arguments
    ret,            \* harness: the results of the applications so far
    fetcher         \* harness: the fetchText call in progress (its awaits, its locals)

\* The state of a request to an agent handler.
VARIABLES
    file,           \* the handler that serves the request ("none": no agent request)
    request,        \* req.method and what req.body holds
    agentEnv,       \* process.env, as chat.ts and its copies read it
    messages,       \* messages (msgs in chat.ts): what the next model call sends
    turn,           \* i, the counter of the loop (step in part_002 346)
    toolCalls,      \* the tool calls of the assistant message being handled
    callIndex,      \* the place in toolCalls of the call being handled
    apc,            \* position of the handler: "start", "local", "model", "tool", "done",
                    \* "crashed" ("idle": no agent request)
    received,       \* history: the tool_calls of the assistant messages received
    modelCalls,     \* history: the number of model calls issued
    agentResponses  \* the responses sent

agentVars == <<file, request, agentEnv, messages, turn, toolCalls, callIndex, apc, received,
               modelCalls, agentResponses>>

vars == <<pc, method, body, env, absolute, host, bypassCookie, discovered, source,
          blocked, blocked_reason, fetches, inflight, rulesRead, responses, call, ret,
          fetcher, agentVars>>

\* no agent request
AgentIdle ==
    /\ file = "none"
    /\ request = [method |-> "GET", message |-> FALSE, user |-> FALSE, context |-> FALSE]
    /\ agentEnv = [mode |-> "local", key |-> FALSE]
    /\ messages = <<>>
    /\ turn = 0
    /\ toolCalls = <<>>
    /\ callIndex = 0
    /\ apc = "idle"
    /\ received = <<>>
    /\ modelCalls = 0
    /\ agentResponses = <<>>

handlerVars == <<pc, method, body, env, absolute, host, bypassCookie, discovered, source,
                 blocked, blocked_reason, fetches, inflight, rulesRead, responses>>

-----------------------------------------------------------------------------
(* String primitives of the JavaScript runtime *)

Ch(s, i) == SubSeq(s, i, i)

From(s, i) == SubSeq(s, i, Len(s))

UpperLetters == "ABCDEFGHIJKLMNOPQRSTUVWXYZ"
LowerLetters == "abcdefghijklmnopqrstuvwxyz"
Digits == "0123456789"

UpperSet == {Ch(UpperLetters, i) : i \in 1..26}
LowerSet == {Ch(LowerLetters, i) : i \in 1..26}
DigitSet == {Ch(Digits, i) : i \in 1..10}
AlphaSet == UpperSet \cup LowerSet

LowerOf == [c \in UpperSet |-> Ch(LowerLetters, CHOOSE i \in 1..26 : Ch(UpperLetters, i) = c)]

LowerCh(c) == IF c \in UpperSet THEN LowerOf[c] ELSE c

\* Recursion over a string halves it: TLC's stack bounds the depth of a recursion,
\* not the length of a document.
RECURSIVE toLowerCase(_)
toLowerCase(s) ==
    IF Len(s) <= 1 THEN LowerCh(s)
    ELSE toLowerCase(SubSeq(s, 1, Len(s) \div 2)) \o toLowerCase(From(s, Len(s) \div 2 + 1))

startsWith(s, p) == Len(p) <= Len(s) /\ SubSeq(s, 1, Len(p)) = p

endsWith(s, p) == Len(p) <= Len(s) /\ SubSeq(s, Len(s) - Len(p) + 1, Len(s)) = p

minOr(S, none) == IF S = {} THEN none ELSE CHOOSE k \in S : \A j \in S : k <= j

maxOr(S, none) == IF S = {} THEN none ELSE CHOOSE k \in S : \A j \in S : k >= j

\* First index >= i at which sub occurs in s, 0 when there is none.
indexOfFrom(s, sub, i) ==
    minOr({k \in i..(Len(s) - Len(sub) + 1) : SubSeq(s, k, k + Len(sub) - 1) = sub}, 0)

includes(s, sub) == indexOfFrom(s, sub, 1) > 0

\* First index >= i whose character is in set cs, Len(s)+1 when there is none.
firstOf(s, cs, i) == minOr({k \in i..Len(s) : Ch(s, k) \in cs}, Len(s) + 1)

\* First index >= i whose character is not in set cs, Len(s)+1 when there is none.
firstNotOf(s, cs, i) == minOr({k \in i..Len(s) : Ch(s, k) \notin cs}, Len(s) + 1)

\* Last index <= i whose character is in set cs, 0 when there is none.
lastOf(s, cs, i) == maxOr({k \in 1..i : Ch(s, k) \in cs}, 0)

\* Last index whose character is not in set cs, 0 when there is none.
lastNotOf(s, cs) == maxOr({k \in 1..Len(s) : Ch(s, k) \notin cs}, 0)

\* The characters of code 1 to 127, each at the index that is its code (the backtick,
\* which a string of this module cannot hold, leaves a space at index 96).
Ascii == "\t\n\f\r"
         \o " !\"#$%&'()*+,-./0123456789:;<=>?@ABCDEFGHIJKLMNOPQRSTUVWXYZ[\\]^_ abcdefghijklmnopqrstuvwxyz{|}~"

HexDigits == "0123456789ABCDEF"

\* the code of an ASCII character
CodeOf == [c \in {Ch(Ascii, k) : k \in 1..127} |->
              minOr({k \in 1..127 : Ch(Ascii, k) = c}, 0)]

\* U+0001 .. U+001F
C0Controls == {Ch(Ascii, k) : k \in 1..31}

\* what String.prototype.trim and \s of a regular expression take for white space:
\* space, tab, line feed, vertical tab, form feed, carriage return
WhiteSpace == {" ", "\t", "\n", Ch(Ascii, 11), "\f", "\r"}

trimStart(s) == From(s, firstNotOf(s, WhiteSpace, 1))

trimEnd(s) == SubSeq(s, 1, lastNotOf(s, WhiteSpace))

trim(s) == trimEnd(trimStart(s))

RECURSIVE replaceAll(_, _, _)
replaceAll(s, c, by) ==
    IF Len(s) <= 1 THEN (IF s = c THEN by ELSE s)
    ELSE replaceAll(SubSeq(s, 1, Len(s) \div 2), c, by)
         \o replaceAll(From(s, Len(s) \div 2 + 1), c, by)

\* s.split(sep) for a one-character separator; i is the index of the first sep
RECURSIVE splitAt(_, _, _)
splitAt(s, sep, i) ==
    IF i > Len(s) THEN <<s>>
    ELSE <<SubSeq(s, 1, i - 1)>>
         \o splitAt(From(s, i + 1), sep, firstOf(From(s, i + 1), {sep}, 1))

split(s, sep) == splitAt(s, sep, firstOf(s, {sep}, 1))

\* parts.join(sep)
RECURSIVE join(_, _)
join(parts, sep) ==
    IF Len(parts) = 0 THEN ""
    ELSE IF Len(parts) = 1 THEN parts[1]
    ELSE parts[1] \o sep \o join(Tail(parts), sep)

\* Array.from(new Set(xs)): first occurrences, in order
RECURSIVE dedupe(_, _)
dedupe(xs, seen) ==
    IF Len(xs) = 0 THEN <<>>
    ELSE IF Head(xs) \in seen THEN dedupe(Tail(xs), seen)
    ELSE <<Head(xs)>> \o dedupe(Tail(xs), seen \cup {Head(xs)})

RECURSIVE digitsValue(_, _)
digitsValue(s, acc) ==
    IF s = "" THEN acc
    ELSE digitsValue(Tail(s), 10 * acc + (CHOOSE d \in 0..9 : Ch(Digits, d + 1) = Head(s)))

-----------------------------------------------------------------------------
(* new URL(input [, base]) of the runtime, on the domain stated above.     *)
(* A parsed URL is a record; the result is {} when the parser throws.      *)

SpecialSchemes == {"http", "https"}

DefaultPort(scheme) == IF scheme = "http" THEN 80 ELSE 443

SchemeChars == AlphaSet \cup DigitSet \cup {"+", "-", "."}

\* Characters that make the host parser fail on the host of a special URL (the
\* forbidden domain code points that can still occur in a host after tab, line feed
\* and carriage return have been removed and the authority has been cut out).
ForbiddenHostChars ==
    (C0Controls \ {"\t", "\n", "\r"}) \cup {" ", "%", "<", ">", "[", "]", "^", "|", Ch(Ascii, 127)}

\* Characters that make the opaque-host parser fail (scheme that is not special).
OpaqueForbiddenHostChars == {" ", "<", ">", "[", "\\", "]", "^", "|"}

\* The percent-encode sets of the parser, ASCII part.
C0ControlSet == C0Controls \cup {Ch(Ascii, 127)}

FragmentSet == C0ControlSet \cup {" ", "\"", "<", ">"}

QuerySet == C0ControlSet \cup {" ", "\"", "#", "<", ">"}

SpecialQuerySet == QuerySet \cup {"'"}

PathSet == QuerySet \cup {"?", "{", "}"}

UserinfoSet == PathSet \cup {"/", ":", ";", "=", "@", "[", "\\", "]", "^", "|"}

\* "%" and the two upper-case hexadecimal digits of the code of c, when c is in set
percentEncodeCh(c, set) ==
    IF c \in set
    THEN "%" \o Ch(HexDigits, (CodeOf[c] \div 16) + 1) \o Ch(HexDigits, (CodeOf[c] % 16) + 1)
    ELSE c

RECURSIVE percentEncode(_, _)
percentEncode(s, set) ==
    IF Len(s) <= 1 THEN percentEncodeCh(s, set)
    ELSE percentEncode(SubSeq(s, 1, Len(s) \div 2), set)
         \o percentEncode(From(s, Len(s) \div 2 + 1), set)

\* leading and trailing C0 controls and spaces are removed from the input
stripC0ControlOrSpace(s) ==
    SubSeq(s, firstNotOf(s, C0Controls \cup {" "}, 1), lastNotOf(s, C0Controls \cup {" "}))

removeTabNewline(s) == replaceAll(replaceAll(replaceAll(s, "\t", ""), "\n", ""), "\r", "")

allIn(s, cs) == \A i \in 1..Len(s) : Ch(s, i) \in cs

noneIn(s, cs) == \A i \in 1..Len(s) : Ch(s, i) \notin cs

\* Index of the ":" that ends a scheme at the start of s, 0 when s has no scheme.
schemeEnd(s) ==
    LET k == firstNotOf(s, SchemeChars, 1)
    IN  IF s # "" /\ Head(s) \in AlphaSet /\ k <= Len(s) /\ Ch(s, k) = ":" THEN k ELSE 0

skipSlashes(s) == From(s, firstNotOf(s, {"/", "\\"}, 1))

\* username[:password]@ as the serializer writes it
serializeUserPass(user, pass) ==
    IF user = "" /\ pass = "" THEN ""
    ELSE percentEncode(user, UserinfoSet)
         \o (IF pass = "" THEN "" ELSE ":" \o percentEncode(pass, UserinfoSet)) \o "@"

serializeUserinfoAt(cred, c) == serializeUserPass(SubSeq(cred, 1, c - 1), From(cred, c + 1))

serializeUserinfo(cred) == serializeUserinfoAt(cred, firstOf(cred, {":"}, 1))

\* path state (opaque path state when the URL has no authority and s does not start
\* with "/") and query state: s holds no fragment
pathQueryAt(u, special, s, q) ==
    [u EXCEPT !.path = IF special
                       THEN (IF q = 1 THEN "/"
                             ELSE percentEncode(replaceAll(SubSeq(s, 1, q - 1), "\\", "/"), PathSet))
                       ELSE percentEncode(SubSeq(s, 1, q - 1),
                                          IF u.authority \/ startsWith(s, "/")
                                          THEN PathSet ELSE C0ControlSet),
              !.query = IF q > Len(s) THEN {}
                        ELSE {percentEncode(From(s, q + 1),
                                            IF special THEN SpecialQuerySet ELSE QuerySet)}]

pathQueryFragmentAt(u, special, s, f) ==
    [pathQueryAt(u, special, SubSeq(s, 1, f - 1), firstOf(SubSeq(s, 1, f - 1), {"?"}, 1))
        EXCEPT !.fragment = IF f > Len(s) THEN {} ELSE {percentEncode(From(s, f + 1), FragmentSet)}]

\* path state, query state, fragment state
parsePathQueryFragment(u, special, s) ==
    pathQueryFragmentAt(u, special, s, firstOf(s, {"#"}, 1))

\* port state, and the URL record of a parsed authority
portState(scheme, special, user, rawHost, rawPort, noHostPort, rest) ==
    IF /\ noneIn(rawHost, IF special THEN ForbiddenHostChars ELSE OpaqueForbiddenHostChars)
       /\ (IF special THEN rawHost # "" ELSE (rawHost # "" \/ noHostPort))
       /\ allIn(rawPort, DigitSet)
       /\ (rawPort = "" \/ digitsValue(rawPort, 0) <= 65535)
    THEN {parsePathQueryFragment(
            [scheme |-> scheme, user |-> user,
             host |-> IF special THEN toLowerCase(rawHost)
                      ELSE percentEncode(rawHost, C0ControlSet),
             port |-> IF rawPort = "" \/ (special /\ digitsValue(rawPort, 0) = DefaultPort(scheme))
                      THEN {} ELSE {digitsValue(rawPort, 0)},
             path |-> "", query |-> {}, fragment |-> {}, authority |-> TRUE],
            special, rest)}
    ELSE {}

\* host state: colon is the index of the first ":" of hostport; atSign tells that the
\* authority held an "@" (an empty host after credentials is a failure)
hostState(scheme, special, user, atSign, hostport, colon, rest) ==
    portState(scheme, special, user, SubSeq(hostport, 1, colon - 1), From(hostport, colon + 1),
              hostport = "" /\ ~atSign, rest)

\* authority state: at is the index of the last "@" of auth, 0 when there is none
credentialsAt(scheme, special, auth, at, rest) ==
    hostState(scheme, special, IF at = 0 THEN "" ELSE serializeUserinfo(SubSeq(auth, 1, at - 1)),
              at # 0, From(auth, at + 1), firstOf(From(auth, at + 1), {":"}, 1), rest)

authorityAt(scheme, special, s, stop) ==
    credentialsAt(scheme, special, SubSeq(s, 1, stop - 1),
                  lastOf(SubSeq(s, 1, stop - 1), {"@"}, stop - 1), From(s, stop))

\* authority state, host state, port state, then the path
parseAuthority(scheme, special, s) ==
    authorityAt(scheme, special, s,
                firstOf(s, IF special THEN {"/", "?", "#", "\\"} ELSE {"/", "?", "#"}, 1))

\* b without its query and fragment
inherit(b) == [b EXCEPT !.query = {}, !.fragment = {}]

\* relative state and relative slash state (the base b is a special URL)
parseRelative(b, s) ==
    IF s = "" THEN {[b EXCEPT !.fragment = {}]}
    ELSE IF Head(s) \in {"/", "\\"}
    THEN IF Len(s) >= 2 /\ Ch(s, 2) \in {"/", "\\"}
         THEN parseAuthority(b.scheme, TRUE, skipSlashes(s))
         ELSE {parsePathQueryFragment(inherit(b), TRUE, s)}
    ELSE IF Head(s) = "?"
    THEN {[parsePathQueryFragment(inherit(b), TRUE, s) EXCEPT !.path = b.path]}
    ELSE IF Head(s) = "#"
    THEN {[b EXCEPT !.fragment = {percentEncode(Tail(s), FragmentSet)}]}
    ELSE {parsePathQueryFragment(inherit(b), TRUE,
             SubSeq(b.path, 1, lastOf(b.path, {"/"}, Len(b.path))) \o s)}

TheOne(S) == CHOOSE x \in S : TRUE

\* scheme state: the input is scheme ":" rest
schemeState(scheme, rest, base) ==
    IF scheme \in SpecialSchemes
    THEN IF base # {} /\ TheOne(base).scheme = scheme /\ ~startsWith(rest, "//")
         THEN parseRelative(TheOne(base), rest)
         ELSE parseAuthority(scheme, TRUE, skipSlashes(rest))
    ELSE IF startsWith(rest, "//")
    THEN parseAuthority(scheme, FALSE, From(rest, 3))
    ELSE {parsePathQueryFragment(
             [scheme |-> scheme, user |-> "", host |-> "", port |-> {},
              path |-> "", query |-> {}, fragment |-> {}, authority |-> FALSE],
             FALSE, rest)}

\* scheme start state: k is the index of the ":" that ends the scheme, or 0
schemeStartState(s, k, base) ==
    IF k = 0
    THEN (IF base = {} THEN {} ELSE parseRelative(TheOne(base), s))
    ELSE schemeState(toLowerCase(SubSeq(s, 1, k - 1)), From(s, k + 1), base)

parseStripped(s, base) == schemeStartState(s, schemeEnd(s), base)

\* The basic URL parser.  base is {} or {parsed URL}.
parseURL(input, base) == parseStripped(removeTabNewline(stripC0ControlOrSpace(input)), base)

\* a bug: the scheme of the input is dropped for https
protocolHttps(u) == "https:"

\* url.protocol
protocol(u) == u.scheme \o ":"

\* url.hostname
hostname(u) == u.host

\* url.href
href(u) ==
    protocol(u)
    \o (IF u.authority
        THEN "//" \o u.user \o u.host \o (IF u.port = {} THEN "" ELSE ":" \o ToString(TheOne(u.port)))
        ELSE "")
    \o u.path
    \o (IF u.query = {} THEN "" ELSE "?" \o TheOne(u.query))
    \o (IF u.fragment = {} THEN "" ELSE "#" \o TheOne(u.fragment))

-----------------------------------------------------------------------------
(* ensureAbsoluteUrl *)

stripTrailingQuotes(t) == SubSeq(t, 1, lastNotOf(t, {"\""}))

\* raw.replace(/^"+|"+$/g, ''): the leading run of quotes, then the trailing one
stripQuotes(s) == stripTrailingQuotes(From(s, firstNotOf(s, {"\""}, 1)))

\* /^https?:\/\//i.test(u)
hasHttpPrefix(u) ==
    \/ (Len(u) >= 7 /\ toLowerCase(SubSeq(u, 1, 7)) = "http://")
    \/ (Len(u) >= 8 /\ toLowerCase(SubSeq(u, 1, 8)) = "https://")

\* a bug: every leading "www." is removed, not the first one only
RECURSIVE stripEveryWww(_)
stripEveryWww(h) ==
    IF Len(h) >= 4 /\ toLowerCase(SubSeq(h, 1, 4)) = "www." THEN stripEveryWww(From(h, 5)) ELSE h

\* hostname.replace(/^www\./i, '')
stripWww(h) == IF Len(h) >= 4 /\ toLowerCase(SubSeq(h, 1, 4)) = "www." THEN From(h, 5) ELSE h

RequiredMessage == "company_url is required (website | company_url | company.url | url)"

\* u.replace(/^\/\//, 'https://')
replaceLeadingSlashes(q) == IF startsWith(q, "//") THEN "https://" \o From(q, 3) ELSE q

\* a bug: the scheme given to a bare domain is http
withHttp(u) == IF hasHttpPrefix(u) THEN u ELSE "http://" \o u

\* if (!/^https?:\/\//i.test(u)) u = 'https://' + u
withHttps(u) == IF hasHttpPrefix(u) THEN u ELSE "https://" \o u

\* lines 118-120: absolute and host of the parsed URL
originOf(url) ==
    [ok |-> TRUE,
     absolute |-> protocol(url) \o "//" \o hostname(url),
     host |-> toLowerCase(stripWww(hostname(url)))]

originOrThrow(parsed) ==
    IF parsed = {} THEN [ok |-> FALSE, message |-> "Invalid URL"] ELSE originOf(TheOne(parsed))

normalizeTrimmed(raw) ==
    IF raw = "" THEN [ok |-> FALSE, message |-> RequiredMessage]
    ELSE originOrThrow(parseURL(withHttps(replaceLeadingSlashes(stripQuotes(raw))), {}))

\* rawIn is {} (undefined) or {string}.  The result is [ok |-> TRUE, absolute, host]
\* or [ok |-> FALSE, message] when the function throws.
ensureAbsoluteUrl(rawIn) == normalizeTrimmed(trim(IF rawIn = {} THEN "" ELSE TheOne(rawIn)))

-----------------------------------------------------------------------------
(* Bypass helpers.  A rule table is a function from keys to rules; a rule   *)
(* is a record [cookie, token], each {} or {string}.                        *)

EmptyRules == [k \in {} |-> {}]

\* env.kind: "unset" (absent or ''), "malformed" (JSON.parse throws), "scalar" (JSON
\* that is no object) or "object" (env.table is the parsed object)
readBypassRules(e) == IF e.kind = "object" THEN e.table ELSE EmptyRules

RECURSIVE wildcardLoopReversed(_, _, _)
wildcardLoopReversed(rules, parts, i) ==
    IF i < 1 THEN {}
    ELSE LET wc == "*." \o join(SubSeq(parts, i + 1, Len(parts)), ".")
         IN  IF wc \in DOMAIN rules THEN {rules[wc]}
             ELSE wildcardLoopReversed(rules, parts, i - 1)

\* a bug: the loop stops before the key of the last label alone
RECURSIVE wildcardLoopToZone(_, _, _)
wildcardLoopToZone(rules, parts, i) ==
    IF ~(i < Len(parts) - 1) THEN {}
    ELSE LET wc == "*." \o join(SubSeq(parts, i + 1, Len(parts)), ".")
         IN  IF wc \in DOMAIN rules THEN {rules[wc]}
             ELSE wildcardLoopToZone(rules, parts, i + 1)

\* the loop of matchRule from index i (0-based, as in the source) on
RECURSIVE wildcardLoop(_, _, _)
wildcardLoop(rules, parts, i) ==
    IF ~(i < Len(parts)) THEN {}
    ELSE LET wc == "*." \o join(SubSeq(parts, i + 1, Len(parts)), ".")
         IN  IF wc \in DOMAIN rules THEN {rules[wc]}
             ELSE wildcardLoop(rules, parts, i + 1)

\* a bug: the wildcard keys are tried from the broadest to the most specific
matchRuleBroadestFirst(rules, h) ==
    IF h \in DOMAIN rules THEN {rules[h]}
    ELSE LET parts == split(h, ".")
             w == wildcardLoopReversed(rules, parts, Len(parts) - 1)
         IN  IF w # {} THEN w
             ELSE IF "*" \in DOMAIN rules THEN {rules["*"]} ELSE {}

\* {} when no rule matches, else {rule}
matchRule(rules, h) ==
    IF h \in DOMAIN rules THEN {rules[h]}
    ELSE LET parts == split(h, ".")
             w == wildcardLoop(rules, parts, 1)
         IN  IF w # {} THEN w
             ELSE IF "*" \in DOMAIN rules THEN {rules["*"]} ELSE {}

\* a bug: the token is looked at before the cookie
buildBypassCookieTokenFirst(rule) ==
    LET r == CHOOSE x \in rule : TRUE
        c == CHOOSE x \in r.cookie : TRUE
        t == CHOOSE x \in r.token : TRUE
    IN  IF rule = {} THEN {}
        ELSE IF r.token # {} /\ t # "" /\ trim(t) # ""
        THEN {"vercel-protection-bypass=" \o trim(t) \o "; vercel-protection-bypass-s=1"}
        ELSE IF r.cookie # {} /\ c # "" /\ trim(c) # "" THEN {trim(c)}
        ELSE {}

\* {} when no cookie is available, else {cookie}
buildBypassCookie(rule) ==
    LET r == CHOOSE x \in rule : TRUE
        c == CHOOSE x \in r.cookie : TRUE
        t == CHOOSE x \in r.token : TRUE
    IN  IF rule = {} THEN {}
        ELSE IF r.cookie # {} /\ c # "" /\ trim(c) # "" THEN {trim(c)}
        ELSE IF r.token # {} /\ t # "" /\ trim(t) # ""
        THEN {"vercel-protection-bypass=" \o trim(t) \o "; vercel-protection-bypass-s=1"}
        ELSE {}

\* a bug: the signature is looked for in the text as it is
looksLikeVercelProtectionCaseSensitive(html) ==
    includes(html, "authentication required") /\ includes(html, "vercel")

looksLikeVercelProtection(html) ==
    LET s == toLowerCase(html)
    IN  includes(s, "authentication required") /\ includes(s, "vercel")

-----------------------------------------------------------------------------
(* The bounded fetcher.  The response that fetch resolves to is a record: its status,
   whether its body gives a reader, and the values that the successive reads give until
   done, each a set that is empty (no value) or holds one chunk of ASCII text, whose
   byteLength is its length. *)

\* res.text(), line 172: the whole body
RECURSIVE wholeBody(_, _)
wholeBody(values, i) ==
    IF i > Len(values) THEN ""
    ELSE IF values[i] = {} THEN wholeBody(values, i + 1)
    ELSE TheOne(values[i]) \o wholeBody(values, i + 1)

\* fetchText before it is called.  at is where the call stands: "idle", "fetch" (the
\* await of line 168), "text" (line 172), "read" (line 178), "returned" or "threw";
\* reads counts the reads that have resolved, total and chunks are the locals of
\* lines 175-176, aborted tells that the timer of line 166 has fired.
NoFetch == [at |-> "idle", reads |-> 0, total |-> 0, chunks |-> <<>>, aborted |-> FALSE]

\* a bug: the chunk is pushed before the total is compared
readValuePushFirst(f, value, maxBytes) ==
    IF value = {} THEN [f EXCEPT !.reads = @ + 1]
    ELSE [f EXCEPT !.reads = @ + 1,
                   !.total = @ + Len(TheOne(value)),
                   !.chunks = Append(@, TheOne(value)),
                   !.at = IF f.total + Len(TheOne(value)) > maxBytes THEN "returned" ELSE @]

\* lines 180-184: a read that is not done gave value
readValue(f, value, maxBytes) ==
    IF value = {} THEN [f EXCEPT !.reads = @ + 1]
    ELSE IF f.total + Len(TheOne(value)) > maxBytes
    THEN [f EXCEPT !.reads = @ + 1, !.total = @ + Len(TheOne(value)), !.at = "returned"]
    ELSE [f EXCEPT !.reads = @ + 1,
                   !.total = @ + Len(TheOne(value)),
                   !.chunks = Append(@, TheOne(value))]

\* lines 178-184: the next read resolves, done once the values are exhausted
afterRead(f, values, maxBytes) ==
    IF f.reads + 1 > Len(values)
    THEN [f EXCEPT !.reads = @ + 1, !.at = "returned"]
    ELSE readValue(f, values[f.reads + 1], maxBytes)

\* what the caller of fetchText gets
Returned(status, text) == [threw |-> FALSE, status |-> status, text |-> text]

Thrown == [threw |-> TRUE, status |-> 0, text |-> ""]

-----------------------------------------------------------------------------
(* Parsers *)

\* the matches of /<loc>([^<]+)<\/loc>/gi from index i on, each trimmed
RECURSIVE locMatches(_, _, _)
locMatches(xml, lower, i) ==
    LET k == indexOfFrom(lower, "<loc>", i)
        j == firstOf(xml, {"<"}, k + 5)
    IN  IF k = 0 THEN <<>>
        ELSE IF j > k + 5 /\ j + 5 <= Len(xml) /\ SubSeq(lower, j, j + 5) = "</loc>"
        THEN <<trim(SubSeq(xml, k + 5, j - 1))>> \o locMatches(xml, lower, j + 6)
        ELSE locMatches(xml, lower, k + 1)

parseXmlLocs(xml) == dedupe(locMatches(xml, toLowerCase(xml), 1), {})

skipSpace(s, i) == firstNotOf(s, WhiteSpace, i)

Quotes == {"\"", "'"}

\* the captures of /href\s*=\s*["']([^"']+)["']/gi from index i on
RECURSIVE hrefMatches(_, _, _)
hrefMatches(html, lower, i) ==
    LET k == indexOfFrom(lower, "href", i)
        a == skipSpace(html, k + 4)
        b == skipSpace(html, a + 1)
        c == firstOf(html, Quotes, b + 1)
    IN  IF k = 0 THEN <<>>
        ELSE IF /\ a <= Len(html) /\ Ch(html, a) = "="
                /\ b <= Len(html) /\ Ch(html, b) \in Quotes
                /\ c > b + 1 /\ c <= Len(html)
        THEN <<SubSeq(html, b + 1, c - 1)>> \o hrefMatches(html, lower, c + 1)
        ELSE hrefMatches(html, lower, k + 1)

\* u.href.split('#')[0]
beforeHash(full) == SubSeq(full, 1, firstOf(full, {"#"}, 1) - 1)

\* the try block of the loop: the links one href adds
linkOf(parsed, base) ==
    IF parsed = {} THEN <<>>
    ELSE IF hostname(TheOne(parsed)) = hostname(base) THEN <<beforeHash(href(TheOne(parsed)))>>
    ELSE <<>>

\* the body of the while loop of extractLinksFromHtml, over the captured hrefs
RECURSIVE sameHostLinks(_, _)
sameHostLinks(hrefs, base) ==
    IF Len(hrefs) = 0 THEN <<>>
    ELSE (IF \/ startsWith(Head(hrefs), "#")
             \/ startsWith(Head(hrefs), "mailto:")
             \/ startsWith(Head(hrefs), "tel:")
          THEN <<>>
          ELSE linkOf(parseURL(Head(hrefs), {base}), base))
         \o sameHostLinks(Tail(hrefs), base)

linksWithBase(html, base) ==
    IF base = {} THEN [threw |-> TRUE, links |-> <<>>]
    ELSE [threw |-> FALSE,
          links |-> dedupe(sameHostLinks(hrefMatches(html, toLowerCase(html), 1), TheOne(base)),
                           {})]

\* [threw |-> TRUE] when new URL(root) throws, else [threw |-> FALSE, links |-> ...]
extractLinksFromHtml(html, root) == linksWithBase(html, parseURL(root, {}))

-----------------------------------------------------------------------------
(* Ranking *)

\* a bug: the score is the weight of the first pattern that matches
scoreFirstMatch(u) ==
    LET s == toLowerCase(u)
    IN  IF endsWith(s, "/") \/ endsWith(s, "index.htm") \/ endsWith(s, "index.html") THEN 10
        ELSE IF includes(s, "about") THEN 8
        ELSE IF includes(s, "product") \/ includes(s, "solutions") THEN 8
        ELSE IF includes(s, "pricing") THEN 7
        ELSE IF includes(s, "blog") \/ includes(s, "news") \/ includes(s, "stories") THEN 5
        ELSE IF includes(s, "docs") \/ includes(s, "help") \/ includes(s, "support") THEN 5
        ELSE IF includes(s, "careers") \/ includes(s, "jobs") THEN 2
        ELSE IF includes(s, "contact") THEN 4
        ELSE 0

score(u) ==
    LET s == toLowerCase(u)
    IN    (IF endsWith(s, "/") \/ endsWith(s, "index.htm") \/ endsWith(s, "index.html")
           THEN 10 ELSE 0)
        + (IF includes(s, "about") THEN 8 ELSE 0)
        + (IF includes(s, "product") \/ includes(s, "solutions") THEN 8 ELSE 0)
        + (IF includes(s, "pricing") THEN 7 ELSE 0)
        + (IF includes(s, "blog") \/ includes(s, "news") \/ includes(s, "stories") THEN 5 ELSE 0)
        + (IF includes(s, "docs") \/ includes(s, "help") \/ includes(s, "support") THEN 5 ELSE 0)
        + (IF includes(s, "careers") \/ includes(s, "jobs") THEN 2 ELSE 0)
        + (IF includes(s, "contact") THEN 4 ELSE 0)

removeAt(xs, i) == SubSeq(xs, 1, i - 1) \o SubSeq(xs, i + 1, Len(xs))

RECURSIVE scoresOf(_)
scoresOf(xs) == IF Len(xs) = 0 THEN <<>> ELSE <<score(Head(xs))>> \o scoresOf(Tail(xs))

\* xs ordered by the keys sc, descending, equal keys in their order in xs
RECURSIVE sortDescending(_, _)
sortDescending(xs, sc) ==
    IF Len(xs) = 0 THEN <<>>
    ELSE LET best == CHOOSE i \in 1..Len(xs) :
                        /\ \A j \in 1..Len(xs) : sc[j] <= sc[i]
                        /\ \A j \in 1..(i - 1) : sc[j] < sc[i]
         IN  <<xs[best]>> \o sortDescending(removeAt(xs, best), removeAt(sc, best))

reversed(xs) == [i \in 1..Len(xs) |-> xs[Len(xs) + 1 - i]]

\* a bug: a sort that is not stable (equal scores come out in reverse order)
sortByScoreTiesReversed(xs) == sortDescending(reversed(xs), scoresOf(reversed(xs)))

\* a bug: the comparator is score(a) - score(b)
sortByScoreAscending(xs) == sortDescending(xs, [i \in 1..Len(xs) |-> 0 - score(xs[i])])

\* Array.prototype.sort with (a, b) => score(b) - score(a): the sort is stable
sortByScore(xs) == sortDescending(xs, scoresOf(xs))

firstK(sorted, k) == SubSeq(sorted, 1, IF Len(sorted) < k THEN Len(sorted) ELSE k)

rankTopK(urls, k) == firstK(sortByScore(dedupe(urls, {})), k)

\* a bug: the categories are tried in the order of the score weights
reasonByWeight(u) ==
    IF endsWith(u, "/") THEN "homepage"
    ELSE IF includes(u, "about") THEN "about"
    ELSE IF includes(u, "product") \/ includes(u, "solutions") THEN "products/solutions"
    ELSE IF includes(u, "pricing") THEN "pricing"
    ELSE IF includes(u, "blog") \/ includes(u, "news") \/ includes(u, "stories") THEN "blog/news"
    ELSE IF includes(u, "docs") \/ includes(u, "help") \/ includes(u, "support") THEN "docs/help"
    ELSE IF includes(u, "contact") THEN "contact"
    ELSE IF includes(u, "careers") \/ includes(u, "jobs") THEN "careers"
    ELSE "page"

\* the reason tag of the crawl plan (tested on the URL as it is, not lowercased)
reasonOf(u) ==
    IF includes(u, "about") THEN "about"
    ELSE IF includes(u, "pricing") THEN "pricing"
    ELSE IF includes(u, "product") \/ includes(u, "solutions") THEN "products/solutions"
    ELSE IF includes(u, "blog") \/ includes(u, "news") \/ includes(u, "stories") THEN "blog/news"
    ELSE IF includes(u, "docs") \/ includes(u, "help") \/ includes(u, "support") THEN "docs/help"
    ELSE IF includes(u, "careers") \/ includes(u, "jobs") THEN "careers"
    ELSE IF includes(u, "contact") THEN "contact"
    ELSE IF endsWith(u, "/") THEN "homepage"
    ELSE "page"

SyntheticPaths == <<"/", "/about", "/products", "/solutions", "/pricing", "/blog",
                    "/docs", "/contact", "/careers">>

syntheticList(abs) == [i \in 1..Len(SyntheticPaths) |-> abs \o SyntheticPaths[i]]

TopK == 20

\* .map(u => ({ url: u, reason }))
withReasons(ranked) ==
    [i \in 1..Len(ranked) |-> [url |-> ranked[i], reason |-> reasonOf(ranked[i])]]

\* a bug: no synthetic list when nothing was discovered
crawlPlanNoFallback(disc, abs) == withReasons(rankTopK(disc, TopK))

crawlPlan(disc, abs) ==
    withReasons(rankTopK(IF Len(disc) # 0 THEN disc ELSE syntheticList(abs), TopK))

-----------------------------------------------------------------------------
(* The requests, the environment and the network the handler is run on *)

Methods == {"POST", "GET"}

Body(w, cu, co, u) == [website |-> w, company_url |-> cu, company |-> co, url |-> u]

Bodies ==
    { Body({}, {}, {}, {}),
      Body({"http://WWW.Acme.IO/"}, {}, {}, {}),
      Body({""}, {"https://acme.io/"}, {}, {"www.example.com"}),
      Body({"   "}, {}, {}, {"example.com"}),
      Body({}, {}, {[url |-> {"\"//a.b.example.com\""}]}, {}),
      Body({}, {""}, {[url |-> {}]}, {"www.example.com:8080/path"}),
      Body({}, {}, {}, {"https://exa mple.com"}),
      Body({}, {}, {}, {""}) }

Rule(c, t) == [cookie |-> c, token |-> t]

Envs ==
    { [kind |-> "unset", table |-> EmptyRules],
      [kind |-> "malformed", table |-> EmptyRules],
      [kind |-> "object", table |-> ("*.example.com" :> Rule({}, {"T"}))],
      [kind |-> "object", table |-> ("acme.io" :> Rule({" sid=1 "}, {"unused"}))
                                     @@ ("*.com" :> Rule({""}, {"X"}))] }

Statuses == {200, 401, 403, 404}

SitemapDoc(abs) ==
    "<urlset><url><loc>" \o abs \o "/careers</loc></url><url><LOC> " \o abs
    \o "/pricing </LOC></url><url><loc>https://elsewhere.test/about</loc></url>"
    \o "<url><loc>" \o abs \o ".elsewhere.test/about</loc></url></urlset>"

AcmeSitemapDoc == "<loc>https://acme.io/pricing</loc><loc>https://acme.io/careers</loc>"

HomeDoc(abs) ==
    "<a href=\"/contact\">c</a><a HREF = '/pricing#plans'>p</a><a href=\"#top\">t</a>"
    \o "<a href=\"mailto:hi@acme.io\">m</a><a href=\"https://elsewhere.test/about\">e</a>"
    \o "<a href=\"" \o abs \o "/about\">a</a><a href=\"blog/\">b</a><a href='/pricing'>p</a>"
    \o "<a href=\"/our team?of <us>#here\">t</a>"

ProtectionDoc ==
    "<title>Authentication Required</title><p>Vercel</p><a href=\"/login\">log in</a>"

Docs(abs) == {"", SitemapDoc(abs), AcmeSitemapDoc, HomeDoc(abs), ProtectionDoc}

\* what the await of a fetchText call yields: it throws (network error, timeout), or
\* returns {status, text}; an error status comes with an empty body or the protection page
Outcomes(abs) ==
    {[threw |-> TRUE, status |-> 0, text |-> ""]}
    \cup {[threw |-> FALSE, status |-> 200, text |-> d] : d \in Docs(abs)}
    \cup {[threw |-> FALSE, status |-> st, text |-> d] :
             st \in Statuses \ {200}, d \in {"", ProtectionDoc}}

-----------------------------------------------------------------------------
(* The handler *)

Truthy(v) == v # {} /\ v # {""}

NonBlank(v) == v # {} /\ trim(TheOne(v)) # ""

\* a bug: a blank field is passed over as an empty one is
rawUrlOfSkippingBlank(b) ==
    IF NonBlank(b.website) THEN b.website
    ELSE IF NonBlank(b.company_url) THEN b.company_url
    ELSE IF b.company # {} /\ NonBlank(TheOne(b.company).url)
    THEN TheOne(b.company).url
    ELSE b.url

\* b.website || b.company_url || b?.company?.url || b.url
rawUrlOf(b) ==
    IF Truthy(b.website) THEN b.website
    ELSE IF Truthy(b.company_url) THEN b.company_url
    ELSE IF b.company # {} /\ Truthy(TheOne(b.company).url)
    THEN TheOne(b.company).url
    ELSE b.url

Locals == [discovered |-> discovered, source |-> source,
           blocked |-> blocked, blocked_reason |-> blocked_reason]

SetLocals(L) ==
    /\ discovered' = L.discovered
    /\ source' = L.source
    /\ blocked' = L.blocked
    /\ blocked_reason' = L.blocked_reason

\* json(res, 200, {...}) of the end of the handler
Response200(L) ==
    [code |-> 200, ok |-> TRUE, company_url |-> absolute, domain |-> host,
     crawl_plan |-> crawlPlan(L.discovered, absolute),
     source |-> L.source, blocked |-> L.blocked,
     protection |-> IF L.blocked
                    THEN {[blocked |-> L.blocked, blocked_reason |-> L.blocked_reason,
                           used_bypass_cookie |-> bypassCookie # {}]}
                    ELSE {}]

\* bad(res, msg, code)
ErrorResponse(code, msg) == [code |-> code, ok |-> FALSE, error |-> msg]

\* the last fetchText call of the log has yielded out
Completed(out) ==
    [fetches EXCEPT ![Len(fetches)] =
        [@ EXCEPT !.done = TRUE, !.threw = out.threw, !.status = out.status, !.text = out.text]]

\* a call of fetchText, up to its await
IssueFetch(log, url, cookie, at) ==
    /\ fetches' = Append(log, [url |-> url, cookie |-> cookie, done |-> FALSE,
                               threw |-> FALSE, status |-> 0, text |-> ""])
    /\ inflight' = 1
    /\ pc' = at
    /\ UNCHANGED responses

\* a bug: the handler returns without sending the response
FinishSilently(log, L) ==
    /\ SetLocals(L)
    /\ fetches' = log
    /\ inflight' = 0
    /\ pc' = "done"
    /\ UNCHANGED responses

\* "Rank or synthesize plan" to the end of the handler
Finish(log, L) ==
    /\ SetLocals(L)
    /\ fetches' = log
    /\ inflight' = 0
    /\ pc' = "done"
    /\ responses' = Append(responses, Response200(L))

\* a bug: a blocked sitemap stage ends the discovery
HomepageStageUnlessBlocked(log, L) ==
    IF Len(L.discovered) = 0 /\ ~L.blocked
    THEN SetLocals(L) /\ IssueFetch(log, absolute \o "/", {}, "r2")
    ELSE Finish(log, L)

\* a bug: once a block is recorded the homepage is asked for with the cookie at once
HomepageStageCookieWhenBlocked(log, L) ==
    IF Len(L.discovered) = 0
    THEN SetLocals(L)
         /\ IssueFetch(log, absolute \o "/", IF L.blocked THEN bypassCookie ELSE {}, "r2")
    ELSE Finish(log, L)

\* "2) Fallback: homepage links", up to the await of the homepage fetch
HomepageStage(log, L) ==
    IF Len(L.discovered) = 0
    THEN SetLocals(L) /\ IssueFetch(log, absolute \o "/", {}, "r2")
    ELSE Finish(log, L)

useLocs(L, locs) ==
    IF Len(locs) # 0 THEN [L EXCEPT !.discovered = locs, !.source = "sitemap"] ELSE L

\* a bug: the locs are not filtered by the origin
WithLocsUnfiltered(L, text) == useLocs(L, parseXmlLocs(text))

\* the use of a sitemap response of status < 400
WithLocs(L, text) ==
    useLocs(L, SelectSeq(parseXmlLocs(text), LAMBDA u : startsWith(u, absolute)))

useLinks(L, r) ==
    IF ~r.threw /\ Len(r.links) # 0
    THEN [L EXCEPT !.discovered = r.links, !.source = "homepage"] ELSE L

\* the use of a homepage response of status < 400 (a throw of the extractor is caught)
WithLinks(L, text) == useLinks(L, extractLinksFromHtml(text, absolute))

\* the handler after the method check, norm being the result of ensureAbsoluteUrl
Normalized(norm) ==
    IF ~norm.ok
    THEN /\ responses' = Append(responses, ErrorResponse(400, norm.message))
         /\ pc' = "done"
         /\ UNCHANGED <<absolute, host, bypassCookie, rulesRead, fetches, inflight>>
    ELSE /\ absolute' = norm.absolute
         /\ host' = norm.host
         /\ rulesRead' = TRUE
         /\ bypassCookie' = buildBypassCookie(matchRule(readBypassRules(env), norm.host))
         /\ IssueFetch(fetches, norm.absolute \o "/sitemap.xml", {}, "r1")

\* the handler from its entry to its first response or its first await
HandleRequest ==
    /\ pc = "init"
    /\ IF method # "POST"
       THEN /\ responses' = Append(responses, ErrorResponse(405, "Method Not Allowed"))
            /\ pc' = "done"
            /\ UNCHANGED <<absolute, host, bypassCookie, rulesRead, fetches, inflight>>
       ELSE Normalized(ensureAbsoluteUrl(rawUrlOf(body)))
    /\ UNCHANGED <<method, body, env, discovered, source, blocked, blocked_reason, call, ret,
                   fetcher, agentVars>>

\* a bug: every status >= 400 of the sitemap is taken as a block
SitemapResultAnyErrorBlocks ==
    /\ pc = "r1"
    /\ \E out \in Outcomes(absolute) :
         LET log == Completed(out)
         IN  IF out.threw THEN HomepageStage(log, Locals)
             ELSE IF out.status >= 400
             THEN IF bypassCookie # {}
                  THEN /\ IssueFetch(log, absolute \o "/sitemap.xml", bypassCookie, "r1b")
                       /\ UNCHANGED <<discovered, source, blocked, blocked_reason>>
                  ELSE HomepageStage(log,
                         [Locals EXCEPT !.blocked = TRUE,
                            !.blocked_reason = {"sitemap_" \o ToString(out.status)}])
             ELSE HomepageStage(log, WithLocs(Locals, out.text))
    /\ UNCHANGED <<method, body, env, absolute, host, bypassCookie, rulesRead, call, ret,
                   fetcher, agentVars>>

\* a bug: a 401 or 403 of the sitemap is recorded as a block without the cookie retry
SitemapResultNoRetry ==
    /\ pc = "r1"
    /\ \E out \in Outcomes(absolute) :
         LET log == Completed(out)
         IN  IF out.threw THEN HomepageStage(log, Locals)
             ELSE IF out.status = 401 \/ out.status = 403
             THEN HomepageStage(log,
                    [Locals EXCEPT !.blocked = TRUE,
                       !.blocked_reason = {"sitemap_" \o ToString(out.status)}])
             ELSE IF out.status < 400 THEN HomepageStage(log, WithLocs(Locals, out.text))
             ELSE HomepageStage(log, Locals)
    /\ UNCHANGED <<method, body, env, absolute, host, bypassCookie, rulesRead, call, ret,
                   fetcher, agentVars>>

\* r1 arrives: lines 269-289, then the homepage stage
SitemapResult ==
    /\ pc = "r1"
    /\ \E out \in Outcomes(absolute) :
         LET log == Completed(out)
         IN  IF out.threw THEN HomepageStage(log, Locals)
             ELSE IF out.status = 401 \/ out.status = 403
             THEN IF bypassCookie # {}
                  THEN /\ IssueFetch(log, absolute \o "/sitemap.xml", bypassCookie, "r1b")
                       /\ UNCHANGED <<discovered, source, blocked, blocked_reason>>
                  ELSE HomepageStage(log,
                         [Locals EXCEPT !.blocked = TRUE,
                            !.blocked_reason = {"sitemap_" \o ToString(out.status)}])
             ELSE IF out.status < 400 THEN HomepageStage(log, WithLocs(Locals, out.text))
             ELSE HomepageStage(log, Locals)
    /\ UNCHANGED <<method, body, env, absolute, host, bypassCookie, rulesRead, call, ret,
                   fetcher, agentVars>>

\* a bug: the reason of a failed retry carries the status of the first response
SitemapRetryResultOriginalStatus ==
    /\ pc = "r1b"
    /\ \E out \in Outcomes(absolute) :
         LET log == Completed(out)
         IN  IF out.threw THEN HomepageStage(log, Locals)
             ELSE IF out.status < 400 THEN HomepageStage(log, WithLocs(Locals, out.text))
             ELSE HomepageStage(log,
                    [Locals EXCEPT !.blocked = TRUE,
                       !.blocked_reason = {"sitemap_" \o ToString(fetches[1].status)}])
    /\ UNCHANGED <<method, body, env, absolute, host, bypassCookie, rulesRead, call, ret,
                   fetcher, agentVars>>

\* r1b arrives: lines 273-280, then the homepage stage
SitemapRetryResult ==
    /\ pc = "r1b"
    /\ \E out \in Outcomes(absolute) :
         LET log == Completed(out)
         IN  IF out.threw THEN HomepageStage(log, Locals)
             ELSE IF out.status < 400 THEN HomepageStage(log, WithLocs(Locals, out.text))
             ELSE HomepageStage(log,
                    [Locals EXCEPT !.blocked = TRUE,
                       !.blocked_reason = {"sitemap_" \o ToString(out.status)}])
    /\ UNCHANGED <<method, body, env, absolute, host, bypassCookie, rulesRead, call, ret,
                   fetcher, agentVars>>

\* a bug: the homepage block is recorded without a reason
HomeBlockedNoReason(L, status) == [L EXCEPT !.blocked = TRUE]

\* a bug: the homepage block replaces the reason of the sitemap block
HomeBlockedLastWins(L, status) ==
    [L EXCEPT !.blocked = TRUE, !.blocked_reason = {"home_" \o ToString(status)}]

\* a bug: the homepage block sets the reason and leaves blocked as it was
HomeBlockedReasonOnly(L, status) ==
    [L EXCEPT !.blocked_reason = IF Truthy(L.blocked_reason) THEN L.blocked_reason
                                 ELSE {"home_" \o ToString(status)}]

\* blocked_reason = blocked_reason || `home_${status}`
HomeBlocked(L, status) ==
    [L EXCEPT !.blocked = TRUE,
              !.blocked_reason = IF Truthy(L.blocked_reason) THEN L.blocked_reason
                                 ELSE {"home_" \o ToString(status)}]

\* a bug: no homepage retry once the sitemap stage has recorded a block
HomepageResultRetryUnlessBlocked ==
    /\ pc = "r2"
    /\ \E out \in Outcomes(absolute) :
         LET log == Completed(out)
         IN  IF out.threw THEN Finish(log, Locals)
             ELSE IF out.status = 401 \/ out.status = 403 \/ looksLikeVercelProtection(out.text)
             THEN IF bypassCookie # {} /\ ~blocked
                  THEN /\ IssueFetch(log, absolute \o "/", bypassCookie, "r2b")
                       /\ UNCHANGED <<discovered, source, blocked, blocked_reason>>
                  ELSE Finish(log, HomeBlocked(Locals, out.status))
             ELSE IF out.status < 400 THEN Finish(log, WithLinks(Locals, out.text))
             ELSE Finish(log, Locals)
    /\ UNCHANGED <<method, body, env, absolute, host, bypassCookie, rulesRead, call, ret,
                   fetcher, agentVars>>

\* r2 arrives: lines 294-313, then the end of the handler
HomepageResult ==
    /\ pc = "r2"
    /\ \E out \in Outcomes(absolute) :
         LET log == Completed(out)
         IN  IF out.threw THEN Finish(log, Locals)
             ELSE IF out.status = 401 \/ out.status = 403 \/ looksLikeVercelProtection(out.text)
             THEN IF bypassCookie # {}
                  THEN /\ IssueFetch(log, absolute \o "/", bypassCookie, "r2b")
                       /\ UNCHANGED <<discovered, source, blocked, blocked_reason>>
                  ELSE Finish(log, HomeBlocked(Locals, out.status))
             ELSE IF out.status < 400 THEN Finish(log, WithLinks(Locals, out.text))
             ELSE Finish(log, Locals)
    /\ UNCHANGED <<method, body, env, absolute, host, bypassCookie, rulesRead, call, ret,
                   fetcher, agentVars>>

\* r2b arrives: lines 297-304, then the end of the handler
HomepageRetryResult ==
    /\ pc = "r2b"
    /\ \E out \in Outcomes(absolute) :
         LET log == Completed(out)
         IN  IF out.threw THEN Finish(log, Locals)
             ELSE IF out.status < 400 THEN Finish(log, WithLinks(Locals, out.text))
             ELSE Finish(log, HomeBlocked(Locals, out.status))
    /\ UNCHANGED <<method, body, env, absolute, host, bypassCookie, rulesRead, call, ret,
                   fetcher, agentVars>>

NoCall == [fn |-> "none"]

Init ==
    /\ pc = "init"
    /\ method \in Methods
    /\ body \in Bodies
    /\ env \in Envs
    /\ absolute = ""
    /\ host = ""
    /\ bypassCookie = {}
    /\ discovered = <<>>
    /\ source = "none"
    /\ blocked = FALSE
    /\ blocked_reason = {}
    /\ fetches = <<>>
    /\ inflight = 0
    /\ rulesRead = FALSE
    /\ responses = <<>>
    /\ call = NoCall
    /\ ret = <<>>
    /\ fetcher = NoFetch
    /\ AgentIdle

Next ==
    \/ HandleRequest
    \/ SitemapResult
    \/ SitemapRetryResult
    \/ HomepageResult
    \/ HomepageRetryResult

Spec == Init /\ [][Next]_vars

-----------------------------------------------------------------------------
(* The harness of the pure functions: Init draws a call, the actions apply  *)
(* the function to its arguments.                                           *)

MaxLabels == 3

MaxRules == 2

Labels == {"www", "WWW", "x"}

RECURSIVE HostsOfLength(_)
HostsOfLength(n) ==
    IF n = 1 THEN Labels
    ELSE {l \o "." \o h : l \in Labels, h \in HostsOfLength(n - 1)}

ExampleHosts == {"www.Example.com", "WWW.Acme.IO", "www.www.x.com", "a.b.example.com",
                 "example.com"}

HostTexts == ExampleHosts \cup UNION {HostsOfLength(n) : n \in 1..MaxLabels}

Prefixes == {"", "http://", "HTTP://", "https://", "//", "\"", "\"//", "  ", "user:pw@",
             " ", "u^v@w:p:q@"}

Suffixes == {"", "/", "/a/b?q=1#f", ":8080/x", "\"", "?q", "#f", "  ", "/a b{c}"}

\* inputs the normalizer rejects
MalformedInputs == {{}, {""}, {"   "}, {"\"\""}, {"https://"}, {"//"}, {"exa mple.com"},
                    {"x.com:99999"}, {"x.com:80a"}, {"https://:80"}, {"<x>.com"}, {"@"},
                    {"ab.com"}, {"x.com"}, {"xy.com"}, {"u:p@"}}

\* accepted inputs with a double quote inside the text, after the host
QuoteInHostInputs == {{"example.com\"/a"}, {"http://www.x.com\":8080"}}

NormalizerCalls ==
    {[fn |-> "ensureAbsoluteUrl", rawIn |-> {p \o h \o x}, parts |-> <<p, h, x>>] :
        p \in Prefixes, h \in HostTexts, x \in Suffixes}
    \cup {[fn |-> "ensureAbsoluteUrl", rawIn |-> r, parts |-> <<>>] :
             r \in MalformedInputs \cup QuoteInHostInputs}

RuleKeys == {"a.b.example.com", "*.a.b.example.com", "*.b.example.com", "*.example.com",
             "*.com", "*", "b.example.com"}

\* the rule of key k carries k as its token
RuleTables ==
    {[k \in K |-> Rule({}, {k})] : K \in {K \in SUBSET RuleKeys : Cardinality(K) <= MaxRules}}
    \cup {"*.example.com" :> Rule({}, {"T"})}

MatchHosts == {"a.b.example.com", "b.example.com", "example.com", "com", "acme.io"}

MatchCalls == {[fn |-> "matchRule", rules |-> t, host |-> h] : t \in RuleTables, h \in MatchHosts}

CookieTexts == {{}, {""}, {"  "}, {" sid=1 "}, {"abc"}, {" tok "}, {"T"}}

CookieCalls ==
    {[fn |-> "buildBypassCookie", rule |-> {}]}
    \cup {[fn |-> "buildBypassCookie", rule |-> {Rule(c, t)}] : c \in CookieTexts, t \in CookieTexts}

MaxUrls == 3

UrlPool == {"https://x.com/about", "https://x.com/pricing", "https://x.com/about-pricing",
            "https://x.com/pricing/product", "https://x.com/", "https://x.com/team",
            "https://x.com/careers", "https://x.com/Docs/"}

RECURSIVE UrlLists(_)
UrlLists(n) ==
    IF n = 0 THEN {<<>>}
    ELSE UrlLists(n - 1) \cup {Append(xs, u) : xs \in UrlLists(n - 1), u \in UrlPool}

\* more candidates than the handler keeps, the best of them last
LongUrlList ==
    [i \in 1..(TopK + 2) |->
        IF i = TopK + 2 THEN "https://x.com/about" ELSE "https://x.com/p" \o ToString(i)]

RankCalls ==
    {[fn |-> "rankTopK", urls |-> xs, k |-> k] : xs \in UrlLists(MaxUrls), k \in {1, 2, TopK}}
    \cup {[fn |-> "rankTopK", urls |-> LongUrlList, k |-> TopK]}

\* the longest sequence of reads of a response
MaxReads == 3

ReadValues == {{}, {""}, {"a"}, {"bc"}, {"def"}, {"ghij"}}

RECURSIVE ReadsOfLength(_)
ReadsOfLength(n) ==
    IF n = 0 THEN {<<>>}
    ELSE {Append(vs, v) : vs \in ReadsOfLength(n - 1), v \in ReadValues}

FetchedResponses ==
    {[status |-> st, reader |-> rd, values |-> vs] :
        st \in {200, 403}, rd \in BOOLEAN,
        vs \in UNION {ReadsOfLength(n) : n \in 0..MaxReads}}

ByteBudgets == {2, 3}

FetchCalls ==
    {[fn |-> "fetchText", res |-> r, maxBytes |-> m] : r \in FetchedResponses, m \in ByteBudgets}

InitPure ==
    /\ pc = "idle"
    /\ method = "POST"
    /\ body = Body({}, {}, {}, {})
    /\ env = [kind |-> "unset", table |-> EmptyRules]
    /\ absolute = ""
    /\ host = ""
    /\ bypassCookie = {}
    /\ discovered = <<>>
    /\ source = "none"
    /\ blocked = FALSE
    /\ blocked_reason = {}
    /\ fetches = <<>>
    /\ inflight = 0
    /\ rulesRead = FALSE
    /\ responses = <<>>
    /\ call \in NormalizerCalls \cup MatchCalls \cup CookieCalls \cup RankCalls \cup FetchCalls
    /\ ret = <<>>
    /\ fetcher = NoFetch
    /\ AgentIdle

ApplyEnsureAbsoluteUrl ==
    /\ call.fn = "ensureAbsoluteUrl"
    /\ ret = <<>>
    /\ ret' = <<ensureAbsoluteUrl(call.rawIn)>>
    /\ UNCHANGED <<handlerVars, call, fetcher, agentVars>>

\* the normalizer applied to the absolute it produced
ApplyEnsureAbsoluteUrlAgain ==
    /\ call.fn = "ensureAbsoluteUrl"
    /\ Len(ret) = 1
    /\ ret[1].ok
    /\ ret' = Append(ret, ensureAbsoluteUrl({ret[1].absolute}))
    /\ UNCHANGED <<handlerVars, call, fetcher, agentVars>>

ApplyMatchRule ==
    /\ call.fn = "matchRule"
    /\ ret = <<>>
    /\ ret' = <<matchRule(call.rules, call.host)>>
    /\ UNCHANGED <<handlerVars, call, fetcher, agentVars>>

ApplyBuildBypassCookie ==
    /\ call.fn = "buildBypassCookie"
    /\ ret = <<>>
    /\ ret' = <<buildBypassCookie(call.rule)>>
    /\ UNCHANGED <<handlerVars, call, fetcher, agentVars>>

ApplyRankTopK ==
    /\ call.fn = "rankTopK"
    /\ ret = <<>>
    /\ ret' = <<rankTopK(call.urls, call.k)>>
    /\ UNCHANGED <<handlerVars, call, fetcher, agentVars>>

\* the .map of lines 327-338 on the ranked URLs
ApplyWithReasons ==
    /\ call.fn = "rankTopK"
    /\ Len(ret) = 1
    /\ ret' = Append(ret, withReasons(ret[1]))
    /\ UNCHANGED <<handlerVars, call, fetcher, agentVars>>

\* lines 164-168: the controller, the timer, the call of fetch
StartFetchText ==
    /\ call.fn = "fetchText"
    /\ fetcher.at = "idle"
    /\ fetcher' = [fetcher EXCEPT !.at = "fetch"]
    /\ UNCHANGED <<handlerVars, call, ret, agentVars>>

\* line 166: the timer fires while fetchText awaits, the signal aborts
FetchTimeout ==
    /\ call.fn = "fetchText"
    /\ fetcher.at \in {"fetch", "text", "read"}
    /\ ~fetcher.aborted
    /\ fetcher' = [fetcher EXCEPT !.aborted = TRUE]
    /\ UNCHANGED <<handlerVars, call, ret, agentVars>>

\* lines 168-171: fetch resolves to call.res
FetchResolves ==
    /\ call.fn = "fetchText"
    /\ fetcher.at = "fetch"
    /\ ~fetcher.aborted
    /\ fetcher' = [fetcher EXCEPT !.at = IF call.res.reader THEN "read" ELSE "text"]
    /\ UNCHANGED <<handlerVars, call, ret, agentVars>>

\* the awaited promise rejects (the signal has aborted, or the network failed): fetchText
\* throws, through the finally of lines 188-190
AwaitRejects ==
    /\ call.fn = "fetchText"
    /\ fetcher.at \in {"fetch", "text", "read"}
    /\ fetcher' = [fetcher EXCEPT !.at = "threw"]
    /\ ret' = <<Thrown>>
    /\ UNCHANGED <<handlerVars, call, agentVars>>

\* lines 172-173: res.text() resolves
TextResolves ==
    /\ call.fn = "fetchText"
    /\ fetcher.at = "text"
    /\ ~fetcher.aborted
    /\ fetcher' = [fetcher EXCEPT !.at = "returned"]
    /\ ret' = <<Returned(call.res.status, wholeBody(call.res.values, 1))>>
    /\ UNCHANGED <<handlerVars, call, agentVars>>

\* lines 178-187: reader.read() resolves; after done or the break, the return
ReadResolves ==
    /\ call.fn = "fetchText"
    /\ fetcher.at = "read"
    /\ ~fetcher.aborted
    /\ fetcher' = afterRead(fetcher, call.res.values, call.maxBytes)
    /\ ret' = IF fetcher'.at = "returned"
              THEN <<Returned(call.res.status, join(fetcher'.chunks, ""))>>
              ELSE ret
    /\ UNCHANGED <<handlerVars, call, agentVars>>

NextPure ==
    \/ ApplyEnsureAbsoluteUrl
    \/ ApplyEnsureAbsoluteUrlAgain
    \/ ApplyMatchRule
    \/ ApplyBuildBypassCookie
    \/ ApplyRankTopK
    \/ ApplyWithReasons
    \/ StartFetchText
    \/ FetchTimeout
    \/ FetchResolves
    \/ AwaitRejects
    \/ TextResolves
    \/ ReadResolves

SpecPure == InitPure /\ [][NextPure]_vars

-----------------------------------------------------------------------------
(* The tool loops of the agent handlers: src/api/agent/run.ts, src/api/agent/chat.ts,
   the two handlers of src/unnamed/part_002 (lines 296-435 and 465-687) and the handler
   of src/unnamed/part_004 (lines 63-279).  A message is its role, its tool_calls and
   its tool_call_id (a set, empty when the message has none); the contents of messages
   are left out.  The completions of the model and what the endpoints behind the tools
   answer are the choice of the environment. *)

\* run.ts 196; the literal 8 of chat.ts 290 and of part_002 346
MAX_TURNS == 8

\* part_002 653 and part_004 253: for (let i = 0; i < 6; i++)
OlderTurns == 6

Files == {"run.ts", "chat.ts", "part_002:296", "part_002:465", "part_004:63"}

\* chat.ts and its two older copies
ChatCopies == {"chat.ts", "part_002:465", "part_004:63"}

maxTurns == IF file \in {"part_002:465", "part_004:63"} THEN OlderTurns ELSE MAX_TURNS

Request(m, msg, u, c) == [method |-> m, message |-> msg, user |-> u, context |-> c]

\* message: req.body.message is a non-empty string; user, context: given (for
\* part_002:296, context holds a tenant_id)
Requests ==
    { Request("GET", TRUE, FALSE, FALSE),
      Request("POST", FALSE, FALSE, FALSE),
      Request("POST", TRUE, FALSE, FALSE),
      Request("POST", TRUE, TRUE, TRUE) }

\* AGENT_MODE and OPENAI_API_KEY, which chat.ts and its copies read
AgentEnvs ==
    { [mode |-> "local", key |-> TRUE],
      [mode |-> "openai", key |-> FALSE],
      [mode |-> "openai", key |-> TRUE] }

Msg(role, calls, id) == [role |-> role, tool_calls |-> calls, tool_call_id |-> id]

\* the value undefined, pushed as a message
UndefinedMessage == Msg("undefined", <<>>, {})

ToolCall(id, name, arguments) == [id |-> id, name |-> name, arguments |-> arguments]

\* texts of call.function.arguments
WebsiteArgs == "{\"website\":\"https://acme.io\"}"
BadWebsiteArgs == "{\"website\":\"exa mple.com\"}"
DeptArgs == "{\"dept\":\"SALES\",\"action\":\"create_or_update_lead\"}"
TicketArgs == "{\"ticket\":{\"dept\":\"SALES\",\"action\":\"create_or_update_lead\",\"context\":{\"tenant_id\":\"t1\"}}}"

ArgumentTexts == {"", "{", "{}", "null", WebsiteArgs, BadWebsiteArgs, DeptArgs, TicketArgs}

\* what the handlers read of a parsed value: whether it is null, its website ({} or
\* {string}), whether dept and action are non-empty strings, whether ticket is an object
Parsed(isNull, website, dept, ticket) ==
    [threw |-> FALSE, isNull |-> isNull, website |-> website, dept |-> dept, ticket |-> ticket]

EmptyObject == Parsed(FALSE, {}, FALSE, FALSE)

SyntaxError == [threw |-> TRUE, isNull |-> FALSE, website |-> {}, dept |-> FALSE, ticket |-> FALSE]

\* JSON.parse of the argument texts
JSONparse ==
    [text \in ArgumentTexts |->
        CASE text = "" -> SyntaxError
          [] text = "{" -> SyntaxError
          [] text = "{}" -> EmptyObject
          [] text = "null" -> Parsed(TRUE, {}, FALSE, FALSE)
          [] text = WebsiteArgs -> Parsed(FALSE, {"https://acme.io"}, FALSE, FALSE)
          [] text = BadWebsiteArgs -> Parsed(FALSE, {"exa mple.com"}, FALSE, FALSE)
          [] text = DeptArgs -> Parsed(FALSE, {}, TRUE, FALSE)
          [] text = TicketArgs -> Parsed(FALSE, {}, FALSE, TRUE)]

\* JSON.parse(call.function.arguments || '{}'): run.ts 113
parseArguments(text) == JSONparse[IF text = "" THEN "{}" ELSE text]

\* let args = {}; try { args = JSON.parse(arguments || '{}') } catch {}: chat.ts 205-206,
\* part_002 367-373
parseOrEmptyObject(text) ==
    IF parseArguments(text).threw THEN EmptyObject ELSE parseArguments(text)

\* the tool_calls that a completion can carry: on every turn
LaterToolCallLists ==
    { <<>>,
      <<ToolCall("call_a", "research_build_kb", WebsiteArgs)>>,
      <<ToolCall("call_b", "execute_department", DeptArgs), ToolCall("call_c", "lookup", "{}")>>,
      <<ToolCall("call_d", "lookup", "{")>> }

\* and on the first turn
FirstToolCallLists ==
    LaterToolCallLists \cup
    { <<ToolCall("call_e", "research_build_kb", "{}")>>,
      <<ToolCall("call_f", "research_build_kb", BadWebsiteArgs)>>,
      <<ToolCall("call_g", "research_build_kb", "null")>>,
      <<ToolCall("call_h", "execute_department", "null")>>,
      <<ToolCall("call_i", "execute_department", TicketArgs)>>,
      <<ToolCall("call_j", "schema_guard", "null")>>,
      <<ToolCall("call_k", "build_tickets", "{"), ToolCall("call_l", "build_tickets", "null")>>,
      <<ToolCall("call_m", "sales_handle", TicketArgs), ToolCall("call_n", "ops_handle", "")>>,
      <<ToolCall("call_o", "fin_handle", "null")>>,
      <<ToolCall("call_p", "lookup", "{}")>>,
      <<ToolCall("call_q", "lookup", "null"), ToolCall("call_r", "lookup", "")>> }

ToolCallLists(t) == IF t = 0 THEN FirstToolCallLists ELSE LaterToolCallLists

\* what awaiting a completion gives: a throw, a completion without a message, a message
Completions(t) ==
    {[kind |-> "threw", tool_calls |-> <<>>], [kind |-> "nomessage", tool_calls |-> <<>>]}
    \cup {[kind |-> "message", tool_calls |-> cs] : cs \in ToolCallLists(t)}

Optional(present, m) == IF present THEN <<m>> ELSE <<>>

\* the messages before the loop: run.ts 188-193, chat.ts 193-200, part_002 326-341 and
\* 578-585, part_004 178-185
InitialMessages ==
    CASE file = "run.ts" ->
           <<Msg("system", <<>>, {})>>
           \o Optional(request.user, Msg("system", <<>>, {}))
           \o Optional(request.context, Msg("system", <<>>, {}))
           \o <<Msg("user", <<>>, {})>>
      [] file \in ChatCopies -> <<Msg("system", <<>>, {}), Msg("user", <<>>, {})>>
      [] file = "part_002:296" ->
           <<Msg("system", <<>>, {}), Msg("user", <<>>, {})>>
           \o Optional(request.context, Msg("system", <<>>, {}))

\* the handler sends a response and returns
AgentRespond(msgs, r) ==
    /\ messages' = msgs
    /\ apc' = "done"
    /\ agentResponses' = Append(agentResponses, r)
    /\ UNCHANGED <<turn, toolCalls, callIndex, modelCalls>>

\* an exception leaves the handler: part_002 296-435 has no try around its loop, and
\* the local path of chat.ts and its copies is outside the try
AgentCrash(msgs) ==
    /\ messages' = msgs
    /\ apc' = "crashed"
    /\ UNCHANGED <<turn, toolCalls, callIndex, modelCalls, agentResponses>>

\* a throw inside the loop: the catch of run.ts 224-227, of chat.ts 318-320, of
\* part_002 684-686 and of part_004 276-278
AgentThrow(msgs) ==
    IF file = "part_002:296" THEN AgentCrash(msgs)
    ELSE AgentRespond(msgs, [code |-> 500, ok |-> FALSE, reply |-> "error"])

\* the call of the model, up to its await: run.ts 200, chat.ts 291, part_002 347 and
\* 654, part_004 254
CallModel(msgs, nextTurn) ==
    /\ messages' = msgs
    /\ turn' = nextTurn
    /\ apc' = "model"
    /\ modelCalls' = modelCalls + 1
    /\ UNCHANGED <<toolCalls, callIndex, agentResponses>>

\* the code after the loop: run.ts 217-223, chat.ts 317, part_002 430-434 and 683,
\* part_004 275
AfterLoop(msgs) ==
    AgentRespond(msgs,
        [code |-> 200, ok |-> TRUE,
         reply |-> CASE file = "run.ts" -> "content of the last assistant message"
                     [] file \in ChatCopies -> ""
                     [] file = "part_002:296" -> "(Stopped after tool loop safeguard)"])

\* the test of the for statement: run.ts 199, chat.ts 290, part_002 346 and 653,
\* part_004 253
LoopHead(msgs, nextTurn) ==
    IF nextTurn < maxTurns THEN CallModel(msgs, nextTurn) ELSE AfterLoop(msgs)

\* the first tool call of an assistant message, up to its await
StartTools(msgs, calls) ==
    /\ messages' = msgs
    /\ toolCalls' = calls
    /\ callIndex' = 1
    /\ apc' = "tool"
    /\ UNCHANGED <<turn, modelCalls, agentResponses>>

\* the handler from its entry to its first response or its first await
AgentStart ==
    /\ apc = "start"
    /\ IF request.method # "POST"
       THEN AgentRespond(messages, [code |-> 405, ok |-> FALSE, reply |-> "error"])
       ELSE IF ~request.message
       THEN AgentRespond(messages, [code |-> 400, ok |-> FALSE, reply |-> "error"])
       ELSE IF file \in ChatCopies /\ agentEnv.mode # "openai"
       THEN /\ apc' = "local"
            /\ UNCHANGED <<messages, turn, toolCalls, callIndex, modelCalls, agentResponses>>
       ELSE IF file \in ChatCopies /\ ~agentEnv.key
       THEN AgentRespond(messages, [code |-> 500, ok |-> FALSE, reply |-> "error"])
       ELSE LoopHead(InitialMessages, 0)
    /\ UNCHANGED <<file, request, agentEnv, received>>
    /\ UNCHANGED <<handlerVars, call, ret, fetcher>>

\* the local path, outside the try: chat.ts 110-127, part_002 477-493, part_004 75-93
LocalReplies ==
    /\ apc = "local"
    /\ \/ AgentRespond(messages, [code |-> 200, ok |-> TRUE, reply |-> "local"])
       \/ AgentCrash(messages)
    /\ UNCHANGED <<file, request, agentEnv, received>>
    /\ UNCHANGED <<handlerVars, call, ret, fetcher>>

\* the assistant message msg has arrived: run.ts 201-204, chat.ts 297-314,
\* part_002 355-364 and 660-680, part_004 260-272
OnMessage(calls) ==
    CASE file = "run.ts" ->
           IF Len(calls) = 0
           THEN AfterLoop(Append(messages, Msg("assistant", calls, {})))
           ELSE StartTools(Append(messages, Msg("assistant", calls, {})), calls)
      [] file \in ChatCopies ->
           IF Len(calls) # 0
           THEN StartTools(Append(messages, Msg("assistant", calls, {})), calls)
           ELSE AgentRespond(messages, [code |-> 200, ok |-> TRUE, reply |-> "content || Done."])
      [] file = "part_002:296" ->
           IF Len(calls) = 0
           THEN AgentRespond(messages, [code |-> 200, ok |-> TRUE, reply |-> "content ?? ''"])
           ELSE StartTools(messages, calls)

\* the completion has no message.  run.ts pushes the undefined value (line 201) and
\* throws reading tool_calls of it (line 203); chat.ts and its copies throw reading
\* the message or its tool_calls (chat.ts 297-299); part_002 355-357 takes it as an
\* answer without tool calls
OnNoMessage ==
    CASE file = "run.ts" -> AgentThrow(Append(messages, UndefinedMessage))
      [] file \in ChatCopies -> AgentThrow(messages)
      [] file = "part_002:296" ->
           AgentRespond(messages, [code |-> 200, ok |-> TRUE, reply |-> "content ?? ''"])

\* the awaited completion arrives
ModelReplies ==
    /\ apc = "model"
    /\ \E out \in Completions(turn) :
         CASE out.kind = "threw" -> AgentThrow(messages) /\ UNCHANGED received
           [] out.kind = "nomessage" -> OnNoMessage /\ UNCHANGED received
           [] out.kind = "message" ->
                OnMessage(out.tool_calls) /\ received' = Append(received, out.tool_calls)
    /\ UNCHANGED <<file, request, agentEnv>>
    /\ UNCHANGED <<handlerVars, call, ret, fetcher>>

\* a fetch and the reading of its body: they return or they throw
Awaited == {"returned", "threw"}

\* a branch that reads a property of args throws when args is null
readingArgs(args, outcomes) == IF args.isNull THEN {"threw"} ELSE outcomes

\* run.ts 108-149: JSON.parse is outside any try; the two known tools read args and
\* return what the endpoint answers, whatever its status; the default reads nothing
handleToolCall(tc) ==
    IF parseArguments(tc.arguments).threw THEN {"threw"}
    ELSE IF tc.name \in {"research_build_kb", "execute_department"}
    THEN readingArgs(parseArguments(tc.arguments), Awaited)
    ELSE {"returned"}

\* sales_handle, ops_handle, fin_handle: part_002 622-634 reads t.dept of
\* t = args.ticket; part_004 222-234 builds the ticket with synthTicket (31-61), which
\* reads args?. only; chat.ts has no such case
deptHandle(args) ==
    CASE file = "part_002:465" -> readingArgs(args, IF args.ticket THEN {"returned"} ELSE {"threw"})
      [] file = "part_004:63" -> {"returned"}
      [] file = "chat.ts" -> {"returned"}

\* chat.ts 203-286, part_002 588-649, part_004 188-249: schema_guard and build_tickets
\* read args and return; execute_department (chat.ts 262-269 only) reads args?. and
\* returns what /api/dept/all answers; research_build_kb reads args and returns what
\* the endpoint answers; the default returns
runToolCall(name, args) ==
    CASE name \in {"schema_guard", "build_tickets"} -> readingArgs(args, {"returned"})
      [] name = "execute_department" -> IF file = "chat.ts" THEN Awaited ELSE {"returned"}
      [] name \in {"sales_handle", "ops_handle", "fin_handle"} -> deptHandle(args)
      [] name = "research_build_kb" -> readingArgs(args, Awaited)
      [] OTHER -> {"returned"}

\* part_002 283-294: postJSON throws unless the endpoint answers 2xx
postJSON(accepted) == IF accepted THEN Awaited ELSE {"threw"}

\* /api/research/build-kb answers 400 when the website is not normalized
\* (build-kb.ts 246-251)
buildKbAccepts(args) == ensureAbsoluteUrl(args.website).ok

\* /api/dept/all answers 400 unless the ticket has a dept, an action and a tenant_id
\* (all.ts 201-203); part_002 400-403 always gives a tenant_id
deptAllAccepts(args) == args.dept

\* part_002 366-426: the branches of the two known tools read args and post; the last
\* branch answers an unknown tool
callBranches(name, args) ==
    CASE name = "research_build_kb" -> readingArgs(args, postJSON(buildKbAccepts(args)))
      [] name = "execute_department" -> readingArgs(args, postJSON(deptAllAccepts(args)))
      [] OTHER -> {"returned"}

\* what awaiting the handling of a tool call gives
ToolOutcomes(tc) ==
    CASE file = "run.ts" -> handleToolCall(tc)
      [] file \in ChatCopies -> runToolCall(tc.name, parseOrEmptyObject(tc.arguments))
      [] file = "part_002:296" -> callBranches(tc.name, parseOrEmptyObject(tc.arguments))

\* the tool message is pushed; the next call of the for-of, or the next turn
ToolAnswered(msgs) ==
    IF callIndex < Len(toolCalls)
    THEN /\ messages' = msgs
         /\ callIndex' = callIndex + 1
         /\ UNCHANGED <<turn, toolCalls, apc, modelCalls, agentResponses>>
    ELSE LoopHead(msgs, turn + 1)

\* the awaited tool call ends: run.ts 208-213, chat.ts 302-308, part_002 381-425 and
\* 666-674, part_004 264-267
ToolReturns ==
    /\ apc = "tool"
    /\ \E r \in ToolOutcomes(toolCalls[callIndex]) :
         IF r = "threw" THEN AgentThrow(messages)
         ELSE ToolAnswered(Append(messages, Msg("tool", <<>>, {toolCalls[callIndex].id})))
    /\ UNCHANGED <<file, request, agentEnv, received>>
    /\ UNCHANGED <<handlerVars, call, ret, fetcher>>

InitAgent ==
    /\ pc = "idle"
    /\ method = "POST"
    /\ body = Body({}, {}, {}, {})
    /\ env = [kind |-> "unset", table |-> EmptyRules]
    /\ absolute = ""
    /\ host = ""
    /\ bypassCookie = {}
    /\ discovered = <<>>
    /\ source = "none"
    /\ blocked = FALSE
    /\ blocked_reason = {}
    /\ fetches = <<>>
    /\ inflight = 0
    /\ rulesRead = FALSE
    /\ responses = <<>>
    /\ call = NoCall
    /\ ret = <<>>
    /\ fetcher = NoFetch
    /\ file \in Files
    /\ request \in Requests
    /\ agentEnv \in (IF file \in ChatCopies THEN AgentEnvs ELSE {[mode |-> "openai", key |-> TRUE]})
    /\ messages = <<>>
    /\ turn = 0
    /\ toolCalls = <<>>
    /\ callIndex = 0
    /\ apc = "start"
    /\ received = <<>>
    /\ modelCalls = 0
    /\ agentResponses = <<>>

NextAgent ==
    \/ AgentStart
    \/ LocalReplies
    \/ ModelReplies
    \/ ToolReturns

SpecAgent == InitAgent /\ [][NextAgent]_vars

-----------------------------------------------------------------------------
(* Properties of the handler (specification Spec) *)

Range(f) == {f[i] : i \in DOMAIN f}

PlanUrls(r) == [i \in 1..Len(r.crawl_plan) |-> r.crawl_plan[i].url]

\* the bodies of Bodies whose URL is missing, empty after trimming or unparsable
InvalidUrlBodies ==
    { Body({}, {}, {}, {}),
      Body({"   "}, {}, {}, {"example.com"}),
      Body({}, {}, {}, {"https://exa mple.com"}),
      Body({}, {}, {}, {""}) }

NinePaths == {"/", "/about", "/products", "/solutions", "/pricing", "/blog", "/docs",
              "/contact", "/careers"}

\* C1: a POST request whose URL normalizes is answered, whatever the fetches yield
\* (a status, a text, a throw): until the response the handler is at its entry or
\* awaits a fetch, and the response is one 200 with a non-empty crawl_plan made of the discovered URLs or,
\* when nothing was discovered, of the synthetic list.
C1_NoErrorEscapes ==
    (method = "POST" /\ body \notin InvalidUrlBodies) =>
        IF pc = "done"
        THEN /\ Len(responses) = 1
             /\ responses[1].code = 200
             /\ Len(responses[1].crawl_plan) > 0
             /\ Range(PlanUrls(responses[1])) \subseteq
                    (IF Len(discovered) # 0 THEN Range(discovered)
                     ELSE {absolute \o p : p \in NinePaths})
        ELSE /\ responses = <<>>
             /\ pc \in {"init", "r1", "r1b", "r2", "r2b"}
             /\ pc # "init" => (inflight = 1 /\ Len(fetches) > 0 /\ ~fetches[Len(fetches)].done)

\* four fetches, the two retries throwing, and the synthetic plan in the response
C1_Witness ==
    /\ pc = "done"
    /\ Len(fetches) = 4
    /\ fetches[2].threw
    /\ fetches[4].threw
    /\ responses[1].code = 200
    /\ Len(responses[1].crawl_plan) = 9

\* C2: when the sitemap fetch and the homepage fetch both throw, the crawl_plan is the
\* 9 synthetic paths under the origin, ordered by score, highest first, the source is
\* "none" and blocked is false.
C2_BothFetchesThrow ==
    (pc = "done" /\ Len(fetches) = 2 /\ fetches[1].threw /\ fetches[2].threw) =>
        /\ responses[1].code = 200
        /\ Len(responses[1].crawl_plan) = 9
        /\ Range(PlanUrls(responses[1])) = {absolute \o p : p \in NinePaths}
        /\ \A i \in 1..8 : score(PlanUrls(responses[1])[i]) >= score(PlanUrls(responses[1])[i + 1])
        /\ responses[1].source = "none"
        /\ responses[1].blocked = FALSE
        /\ responses[1].protection = {}

C2_Witness ==
    /\ pc = "done"
    /\ Len(fetches) = 2
    /\ fetches[1].threw
    /\ fetches[2].threw
    /\ absolute = "https://acme.io"
    /\ PlanUrls(responses[1])[1] = "https://acme.io/"
    /\ PlanUrls(responses[1])[9] = "https://acme.io/careers"

\* C3: the sitemap fetch returns 401 or 403, no bypass cookie is resolved for the host
\* and the homepage fetch returns 401 or 403: blocked is true, blocked_reason is
\* "sitemap_" and the status of the sitemap fetch, used_bypass_cookie is false and the
\* source is "none".
C3_BlockedWithoutBypass ==
    (/\ pc = "done"
     /\ bypassCookie = {}
     /\ Len(fetches) = 2
     /\ ~fetches[1].threw /\ fetches[1].status \in {401, 403}
     /\ ~fetches[2].threw /\ fetches[2].status \in {401, 403}) =>
        /\ responses[1].code = 200
        /\ responses[1].blocked = TRUE
        /\ responses[1].source = "none"
        /\ responses[1].protection =
               {[blocked |-> TRUE,
                 blocked_reason |-> {IF fetches[1].status = 403 THEN "sitemap_403"
                                     ELSE "sitemap_401"},
                 used_bypass_cookie |-> FALSE]}

C3_Witness ==
    /\ pc = "done"
    /\ bypassCookie = {}
    /\ Len(fetches) = 2
    /\ ~fetches[1].threw /\ fetches[1].status = 403
    /\ ~fetches[2].threw /\ fetches[2].status = 401
    /\ responses[1].protection # {}
    /\ TheOne(responses[1].protection).blocked_reason = {"sitemap_403"}

AcmeSitemapOk ==
    /\ Len(fetches) >= 1
    /\ fetches[1].done
    /\ ~fetches[1].threw
    /\ fetches[1].status < 400
    /\ fetches[1].text = "<loc>https://acme.io/pricing</loc><loc>https://acme.io/careers</loc>"

AcmeDiscovered == <<"https://acme.io/pricing", "https://acme.io/careers">>

\* C4, as the specification states it: for the input "http://WWW.Acme.IO/" and a sitemap
\* of status < 400 with the locs https://acme.io/pricing and https://acme.io/careers,
\* both locs are discovered, the source is "sitemap", no homepage fetch is made and the
\* plan lists /pricing before /careers.
C4_AsStated ==
    (body.website = {"http://WWW.Acme.IO/"} /\ AcmeSitemapOk) =>
        /\ discovered = AcmeDiscovered
        /\ source = "sitemap"
        /\ Len(fetches) = 1
        /\ pc = "done"
        /\ PlanUrls(responses[1]) = AcmeDiscovered

\* C4: for an input of origin https://acme.io ("https://acme.io/") and that sitemap,
\* both locs are discovered, the source is "sitemap", no homepage fetch is made and the
\* plan lists /pricing (score 7) before /careers (score 2); for the input
\* "http://WWW.Acme.IO/" the origin is http://www.acme.io, no loc of that sitemap is
\* within it, and the homepage http://www.acme.io/ is fetched.
C4_EndToEnd ==
    /\ (rawUrlOf(body) = {"https://acme.io/"} /\ AcmeSitemapOk) =>
          /\ absolute = "https://acme.io"
          /\ discovered = AcmeDiscovered
          /\ source = "sitemap"
          /\ Len(fetches) = 1
          /\ pc = "done"
          /\ PlanUrls(responses[1]) = AcmeDiscovered
          /\ score(AcmeDiscovered[1]) = 7
          /\ score(AcmeDiscovered[2]) = 2
    /\ (body.website = {"http://WWW.Acme.IO/"} /\ AcmeSitemapOk) =>
          /\ absolute = "http://www.acme.io"
          /\ Len(fetches) >= 2
          /\ fetches[2].url = "http://www.acme.io/"
          /\ source # "sitemap"
          /\ \A i \in 1..Len(discovered) : discovered[i] \notin Range(AcmeDiscovered)

C4_Witness ==
    /\ rawUrlOf(body) = {"https://acme.io/"}
    /\ AcmeSitemapOk
    /\ pc = "done"
    /\ Len(fetches) = 1
    /\ PlanUrls(responses[1]) = AcmeDiscovered
    /\ responses[1].source = "sitemap"

\* C9: a request gets one response: 405 when the method is not POST, 400 when it is POST
\* and the URL is missing, empty after trimming or unparsable, 200 otherwise; in the 405
\* and 400 cases no bypass rule is read and no fetch is issued.
C9_OneResponse ==
    /\ Len(responses) <= 1
    /\ (pc = "done") <=> (Len(responses) = 1)
    /\ pc = "done" =>
          responses[1].code = (IF method # "POST" THEN 405
                               ELSE IF body \in InvalidUrlBodies THEN 400 ELSE 200)
    /\ (method # "POST" \/ body \in InvalidUrlBodies) => (~rulesRead /\ fetches = <<>>)

\* a POST whose first field is blank: 400, though a later field holds a URL
C9_Witness ==
    /\ pc = "done"
    /\ method = "POST"
    /\ body.website = {"   "}
    /\ body.url = {"example.com"}
    /\ responses = <<[code |-> 400, ok |-> FALSE,
                      error |-> "company_url is required (website | company_url | company.url | url)"]>>
    /\ fetches = <<>>

-----------------------------------------------------------------------------
(* Properties of the normalizer and of matchRule (specification SpecPure) *)

Normalized1 == call.fn = "ensureAbsoluteUrl" /\ Len(ret) >= 1

\* the call was built of a prefix, a host text and a suffix, and was applied
Composed == Normalized1 /\ Len(call.parts) = 3

\* C5, as the specification states it: "http://WWW.Acme.IO/" is normalized to the host
\* "acme.io" and the absolute "https://acme.io".
C5_AsStated ==
    (Normalized1 /\ call.rawIn = {"http://WWW.Acme.IO/"}) =>
        /\ ret[1].ok
        /\ ret[1].host = "acme.io"
        /\ ret[1].absolute = "https://acme.io"

\* C5: "http://WWW.Acme.IO/" is normalized to the host "acme.io" and the absolute
\* "http://www.acme.io": the scheme of the input and the "www." stay in the absolute.
C5_AcmeExample ==
    (Normalized1 /\ call.rawIn = {"http://WWW.Acme.IO/"}) =>
        /\ ret[1].ok
        /\ ret[1].host = "acme.io"
        /\ ret[1].absolute = "http://www.acme.io"

C5_Witness ==
    /\ Normalized1
    /\ call.rawIn = {"http://WWW.Acme.IO/"}
    /\ ret[1].ok
    /\ ret[1].host = "acme.io"

\* C6: the absolute of a valid input is a valid input, and its absolute and its host
\* are those of the input.
C6_Idempotent ==
    (Normalized1 /\ ret[1].ok /\ Len(ret) = 2) =>
        /\ ret[2].ok
        /\ ret[2].absolute = ret[1].absolute
        /\ ret[2].host = ret[1].host

\* the inputs built of a prefix, a host text and a suffix hold no quote after the host:
\* normalizing their absolute gives the first result again
IdempotentOnComposed == (Composed /\ Len(ret) = 2) => ret[2] = ret[1]

\* a quote the first pass left at the end of the absolute is stripped by the second
QuoteStrippedOnSecondPass ==
    /\ Normalized1
    /\ call.rawIn = {"example.com\"/a"}
    /\ Len(ret) = 2
    /\ ret[1].ok /\ ret[1].absolute = "https://example.com\"" /\ ret[1].host = "example.com\""
    /\ ret[2].ok /\ ret[2].absolute = "https://example.com" /\ ret[2].host = "example.com"

\* the host text in lower case, less one leading "www."
ExpectedHost(h) ==
    IF Len(h) >= 4 /\ SubSeq(h, 1, 4) \in {"www.", "WWW."}
    THEN toLowerCase(SubSeq(h, 5, Len(h)))
    ELSE toLowerCase(h)

\* C7: the host of a valid input is its hostname in lower case with one leading "www."
\* removed: "www.Example.com" gives "example.com", "www.www.x.com" gives "www.x.com".
C7_HostOfInput ==
    Composed =>
        /\ ret[1].ok
        /\ ret[1].host = ExpectedHost(call.parts[2])
        /\ call.parts[2] = "www.Example.com" => ret[1].host = "example.com"
        /\ call.parts[2] = "www.www.x.com" => ret[1].host = "www.x.com"

C7_Witness ==
    /\ Composed
    /\ call.parts[2] = "www.www.x.com"
    /\ ret[1].ok
    /\ ret[1].host = "www.x.com"

\* C8: the absolute of a valid input is its scheme, "://" and its hostname, whatever
\* follows the host in the input; the scheme is https unless the input starts with
\* http://, and "example.com" gives "https://example.com".
C8_AbsoluteOfInput ==
    Composed =>
        /\ ret[1].ok
        /\ ret[1].absolute =
               (IF call.parts[1] \in {"http://", "HTTP://"} THEN "http" ELSE "https")
               \o "://" \o toLowerCase(call.parts[2])
        /\ call.rawIn = {"example.com"} => ret[1].absolute = "https://example.com"

\* a bare domain with a path, a query and a fragment
C8_Witness ==
    /\ Composed
    /\ call.parts = <<"", "example.com", "/a/b?q=1#f">>
    /\ ret[1].ok
    /\ ret[1].absolute = "https://example.com"

DotsOf(h) == {i \in 1..Len(h) : SubSeq(h, i, i) = "."}

\* the wildcard keys of h that are in the table, by the index of their dot in h
WildcardHits(rules, h) == {d \in DotsOf(h) : ("*." \o SubSeq(h, d + 1, Len(h))) \in DOMAIN rules}

FirstInOrder(rules, h) ==
    IF h \in DOMAIN rules THEN {rules[h]}
    ELSE IF WildcardHits(rules, h) # {}
    THEN {rules["*." \o SubSeq(h, minOr(WildcardHits(rules, h), 0) + 1, Len(h))]}
    ELSE IF "*" \in DOMAIN rules THEN {rules["*"]}
    ELSE {}

\* C10: matchRule returns the rule of the first key of the table in the order: the host,
\* the keys "*." and the suffix of the host after its first dot, its second dot, ..., its
\* last dot, then "*"; none when no such key is in the table.  With the table
\* {"*.example.com": {token: "T"}} and the host "a.b.example.com" it is that rule.
C10_MatchOrder ==
    (call.fn = "matchRule" /\ Len(ret) = 1) =>
        /\ ret[1] = FirstInOrder(call.rules, call.host)
        /\ (call.host = "a.b.example.com"
            /\ call.rules = ("*.example.com" :> [cookie |-> {}, token |-> {"T"}])) =>
               ret[1] = {[cookie |-> {}, token |-> {"T"}]}

C10_Witness ==
    /\ call.fn = "matchRule"
    /\ call.host = "a.b.example.com"
    /\ call.rules = ("*.example.com" :> [cookie |-> {}, token |-> {"T"}])
    /\ ret = <<{[cookie |-> {}, token |-> {"T"}]}>>

\* C11: for the host "a.b.example.com" the wildcard keys tried are "*.b.example.com", then
\* "*.example.com", then "*.com": a table whose only key is "*.com" gives the rule of
\* that key, and "*.com" is taken before "*".
C11_WildcardsTried ==
    (/\ call.fn = "matchRule"
     /\ Len(ret) = 1
     /\ call.host = "a.b.example.com"
     /\ "a.b.example.com" \notin DOMAIN call.rules) =>
        /\ DOMAIN call.rules = {"*.com"} => ret[1] = {[cookie |-> {}, token |-> {"*.com"}]}
        /\ "*.b.example.com" \in DOMAIN call.rules => ret[1] = {call.rules["*.b.example.com"]}
        /\ ("*.example.com" \in DOMAIN call.rules /\ "*.b.example.com" \notin DOMAIN call.rules)
              => ret[1] = {call.rules["*.example.com"]}
        /\ ("*.com" \in DOMAIN call.rules
            /\ DOMAIN call.rules \cap {"*.b.example.com", "*.example.com"} = {})
              => ret[1] = {call.rules["*.com"]}

C11_Witness ==
    /\ call.fn = "matchRule"
    /\ call.host = "a.b.example.com"
    /\ DOMAIN call.rules = {"*.com"}
    /\ ret = <<{[cookie |-> {}, token |-> {"*.com"}]}>>

\* C11, as the specification states it: for the host "a.b.example.com" the key "*.com" is
\* not tried, so a table whose only key is "*.com" gives no rule.
C11_AsStated ==
    (/\ call.fn = "matchRule"
     /\ Len(ret) = 1
     /\ call.host = "a.b.example.com"
     /\ DOMAIN call.rules = {"*.com"}) => ret[1] = {}

\* the texts of CookieTexts that are not blank, and what they are once trimmed
TrimmedText == (" sid=1 " :> "sid=1") @@ ("abc" :> "abc") @@ (" tok " :> "tok") @@ ("T" :> "T")

NonBlankText(v) == v # {} /\ TheOne(v) \in DOMAIN TrimmedText

\* C12: the cookie of a rule is its cookie, trimmed, when that is not blank, whatever the
\* token; else "vercel-protection-bypass=" its token, trimmed, "; vercel-protection-
\* bypass-s=1" when the token is not blank; else, and when there is no rule, none.
C12_CookieOfRule ==
    (call.fn = "buildBypassCookie" /\ Len(ret) = 1) =>
        ret[1] = (IF call.rule = {} THEN {}
                  ELSE IF NonBlankText(TheOne(call.rule).cookie)
                  THEN {TrimmedText[TheOne(TheOne(call.rule).cookie)]}
                  ELSE IF NonBlankText(TheOne(call.rule).token)
                  THEN {"vercel-protection-bypass="
                        \o TrimmedText[TheOne(TheOne(call.rule).token)]
                        \o "; vercel-protection-bypass-s=1"}
                  ELSE {})

\* a rule of a cookie and a token, both to be trimmed: the cookie is the result
C12_Witness ==
    /\ call.fn = "buildBypassCookie"
    /\ call.rule = {[cookie |-> {" sid=1 "}, token |-> {" tok "}]}
    /\ ret = <<{"sid=1"}>>

\* a blank cookie and a token: the cookie pair of the token
C12_WitnessToken ==
    /\ call.fn = "buildBypassCookie"
    /\ call.rule = {[cookie |-> {"  "}, token |-> {" tok "}]}
    /\ ret = <<{"vercel-protection-bypass=tok; vercel-protection-bypass-s=1"}>>

AboutPricingUrls ==
    {"https://x.com/about", "https://x.com/pricing", "https://x.com/about-pricing"}

\* C13: the weights of all the patterns a URL matches add up: of "https://x.com/about"
\* (8), "https://x.com/pricing" (7) and "https://x.com/about-pricing" (15), in any order,
\* the last is ranked first.
C13_AdditiveScore ==
    (/\ call.fn = "rankTopK"
     /\ Len(ret) >= 1
     /\ Len(call.urls) = 3
     /\ Range(call.urls) = AboutPricingUrls) =>
        /\ score("https://x.com/about") = 8
        /\ score("https://x.com/pricing") = 7
        /\ score("https://x.com/about-pricing") = 15
        /\ ret[1][1] = "https://x.com/about-pricing"
        /\ call.k = TopK =>
              ret[1] = <<"https://x.com/about-pricing", "https://x.com/about",
                         "https://x.com/pricing">>

C13_Witness ==
    /\ call.fn = "rankTopK"
    /\ call.urls = <<"https://x.com/pricing", "https://x.com/about",
                     "https://x.com/about-pricing">>
    /\ call.k = TopK
    /\ ret = <<(<<"https://x.com/about-pricing", "https://x.com/about",
                  "https://x.com/pricing">>)>>

FirstIndex(xs, u) == minOr({i \in 1..Len(xs) : xs[i] = u}, 0)

\* u is ranked before v: a higher score, or the same score and an earlier first occurrence
Before(xs, u, v) ==
    \/ score(u) > score(v)
    \/ score(u) = score(v) /\ FirstIndex(xs, u) < FirstIndex(xs, v)

\* C14: rankTopK(urls, k) is the first k of the distinct URLs of urls ordered by score,
\* highest first, equal scores by first occurrence in urls: at most k items, no
\* duplicate, only URLs of urls, and no URL left out that is ranked before a kept one.
C14_RankTopK ==
    (call.fn = "rankTopK" /\ Len(ret) >= 1) =>
        /\ Len(ret[1]) = (IF Cardinality(Range(call.urls)) < call.k
                          THEN Cardinality(Range(call.urls)) ELSE call.k)
        /\ Range(ret[1]) \subseteq Range(call.urls)
        /\ \A i, j \in 1..Len(ret[1]) :
              i < j => (ret[1][i] # ret[1][j] /\ Before(call.urls, ret[1][i], ret[1][j]))
        /\ \A u \in Range(call.urls) \ Range(ret[1]) :
              \A i \in 1..Len(ret[1]) : Before(call.urls, ret[1][i], u)

\* 22 candidates and k = 20: the last candidate is first, the last two of score 0 are cut
C14_Witness ==
    /\ call.fn = "rankTopK"
    /\ Len(call.urls) = 22
    /\ call.k = 20
    /\ Len(ret) >= 1
    /\ Len(ret[1]) = 20
    /\ ret[1][1] = "https://x.com/about"
    /\ ret[1][2] = "https://x.com/p1"
    /\ ret[1][20] = "https://x.com/p19"

Occurs(u, p) == \E k \in 1..(Len(u) - Len(p) + 1) : SubSeq(u, k, k + Len(p) - 1) = p

ReasonOrder ==
    << <<"about", {"about"}>>,
       <<"pricing", {"pricing"}>>,
       <<"products/solutions", {"product", "solutions"}>>,
       <<"blog/news", {"blog", "news", "stories"}>>,
       <<"docs/help", {"docs", "help", "support"}>>,
       <<"careers", {"careers", "jobs"}>>,
       <<"contact", {"contact"}>> >>

Matching(u) == {i \in 1..Len(ReasonOrder) : \E p \in ReasonOrder[i][2] : Occurs(u, p)}

ExpectedReason(u) ==
    IF Matching(u) # {} THEN ReasonOrder[minOr(Matching(u), 0)][1]
    ELSE IF SubSeq(u, Len(u), Len(u)) = "/" THEN "homepage"
    ELSE "page"

\* C15: each item of the plan is a ranked URL with one reason, the first category of
\* about, pricing, product/solutions, blog/news/stories, docs/help/support, careers/jobs,
\* contact that the URL matches, else "homepage" when it ends with "/", else "page";
\* a URL of "pricing" and "product" is tagged pricing.
C15_ReasonOfItem ==
    (call.fn = "rankTopK" /\ Len(ret) = 2) =>
        /\ Len(ret[2]) = Len(ret[1])
        /\ \A i \in 1..Len(ret[2]) :
              /\ DOMAIN ret[2][i] = {"url", "reason"}
              /\ ret[2][i].url = ret[1][i]
              /\ ret[2][i].reason = ExpectedReason(ret[1][i])
              /\ ret[1][i] = "https://x.com/pricing/product" => ret[2][i].reason = "pricing"

C15_Witness ==
    /\ call.fn = "rankTopK"
    /\ call.k = TopK
    /\ ret = << <<"https://x.com/pricing/product", "https://x.com/Docs/", "https://x.com/team">>,
                <<[url |-> "https://x.com/pricing/product", reason |-> "pricing"],
                  [url |-> "https://x.com/Docs/", reason |-> "homepage"],
                  [url |-> "https://x.com/team", reason |-> "page"]>> >>

-----------------------------------------------------------------------------
(* Properties of the discovery stages (specification Spec) *)

SitemapReasons == {"sitemap_401", "sitemap_403", "sitemap_404"}

HomeReasons == {"home_200", "home_401", "home_403", "home_404"}

\* C16: a 200 response carries the protection diagnostics exactly when it is flagged
\* blocked, and then their blocked_reason is "sitemap_<status>" or "home_<status>";
\* in the handler blocked is true exactly when blocked_reason is set.
C16_ProtectionIffBlocked ==
    /\ blocked <=> (blocked_reason # {})
    /\ blocked_reason \subseteq (SitemapReasons \cup HomeReasons)
    /\ \A i \in 1..Len(responses) :
          responses[i].code = 200 =>
             /\ responses[i].blocked = blocked
             /\ (responses[i].protection # {}) <=> responses[i].blocked
             /\ \A p \in responses[i].protection :
                   /\ p.blocked = TRUE
                   /\ p.blocked_reason # {}
                   /\ p.blocked_reason \subseteq (SitemapReasons \cup HomeReasons)

\* the homepage is a protection page of status 200: blocked with the reason home_200
C16_Witness ==
    /\ pc = "done"
    /\ Len(fetches) = 2
    /\ fetches[1].threw
    /\ fetches[2].status = 200
    /\ Len(responses) = 1
    /\ responses[1].blocked = TRUE
    /\ responses[1].protection =
           {[blocked |-> TRUE, blocked_reason |-> {"home_200"}, used_bypass_cookie |-> FALSE]}

SitemapUrl == absolute \o "/sitemap.xml"

HomeUrl == absolute \o "/"

SitemapReasonOf(status) ==
    CASE status = 401 -> "sitemap_401"
      [] status = 403 -> "sitemap_403"
      [] status = 404 -> "sitemap_404"

\* the first sitemap response is there and is a 401 or a 403
FirstSitemap401or403 ==
    /\ Len(fetches) >= 1
    /\ fetches[1].done
    /\ ~fetches[1].threw
    /\ fetches[1].status \in {401, 403}

\* the retry of the sitemap has returned a status
SitemapRetryReturned ==
    /\ Len(fetches) >= 2
    /\ fetches[2].url = SitemapUrl
    /\ fetches[2].done
    /\ ~fetches[2].threw

\* the sitemap stage has just ended with the retry: the handler has responded, or the
\* homepage fetch is awaited
JustAfterSitemapRetry ==
    \/ Len(fetches) = 2 /\ pc = "done"
    \/ Len(fetches) = 3 /\ pc = "r2" /\ ~fetches[3].done

\* C17: after a first sitemap response of 401 or 403: with no bypass cookie there is no
\* retry and blocked is true with the reason "sitemap_" and that status; with a cookie
\* the sitemap is fetched again with it, and a retry of status >= 400 makes blocked true
\* with the reason "sitemap_" and the status of the retry, while a retry of status < 400
\* leaves blocked false at the end of the sitemap stage.
C17_SitemapBlock ==
    FirstSitemap401or403 =>
        /\ bypassCookie = {} =>
              /\ Len(fetches) >= 2
              /\ fetches[2].url = HomeUrl
              /\ blocked
              /\ blocked_reason = {SitemapReasonOf(fetches[1].status)}
        /\ bypassCookie # {} =>
              /\ Len(fetches) >= 2
              /\ fetches[2].url = SitemapUrl
              /\ fetches[2].cookie = bypassCookie
              /\ (SitemapRetryReturned /\ fetches[2].status >= 400) =>
                    /\ blocked
                    /\ blocked_reason = {SitemapReasonOf(fetches[2].status)}
              /\ (SitemapRetryReturned /\ fetches[2].status < 400) =>
                    /\ blocked_reason \cap SitemapReasons = {}
                    /\ JustAfterSitemapRetry => (~blocked /\ blocked_reason = {})

\* a 403, a cookie, a retry that is a 404: the reason is that of the retry
C17_Witness ==
    /\ FirstSitemap401or403
    /\ fetches[1].status = 403
    /\ bypassCookie # {}
    /\ SitemapRetryReturned
    /\ fetches[2].status = 404
    /\ pc = "r2"
    /\ blocked
    /\ blocked_reason = {"sitemap_404"}

\* the last sitemap response is one whose locs are used and has a loc within the origin
SitemapYieldedLocs ==
    \E i \in 1..Len(fetches) :
        /\ fetches[i].url = SitemapUrl
        /\ \A j \in (i + 1)..Len(fetches) : fetches[j].url # SitemapUrl
        /\ fetches[i].done
        /\ ~fetches[i].threw
        /\ fetches[i].status < 400
        /\ \/ fetches[i].text = SitemapDoc(absolute)
           \/ fetches[i].text = AcmeSitemapDoc /\ absolute = "https://acme.io"

HomepageFetched == \E i \in 1..Len(fetches) : fetches[i].url = HomeUrl

SitemapStageOver == rulesRead /\ pc \notin {"init", "r1", "r1b"}

\* C18: the homepage is fetched exactly when the sitemap stage has ended without a loc
\* within the origin: never before the end of the stage, never when the sitemap (first
\* fetch or retry) gave such a loc, and always otherwise (a throw, a status >= 400, no
\* usable loc, blocked = true); the first homepage fetch carries no cookie.
C18_HomepageIffNothingDiscovered ==
    /\ ~SitemapStageOver => ~HomepageFetched
    /\ SitemapStageOver => (HomepageFetched <=> ~SitemapYieldedLocs)
    /\ \A i \in 1..Len(fetches) :
          (fetches[i].url = HomeUrl /\ \A j \in 1..(i - 1) : fetches[j].url # HomeUrl)
             => fetches[i].cookie = {}

\* the sitemap stage ended blocked, and the homepage fetch is awaited
C18_Witness ==
    /\ pc = "r2"
    /\ blocked
    /\ blocked_reason = {"sitemap_403"}
    /\ bypassCookie = {}
    /\ Len(fetches) = 2
    /\ fetches[2].url = HomeUrl
    /\ ~fetches[2].done

\* index of the first homepage fetch, 0 when there is none
FirstHomeFetch == minOr({i \in 1..Len(fetches) : fetches[i].url = HomeUrl}, 0)

HomeRetryIssued ==
    \E i \in 1..Len(fetches) : fetches[i].url = HomeUrl /\ fetches[i].cookie # {}

\* the response of the first homepage fetch is there and is detected as blocked
HomeDetectedBlocked ==
    /\ FirstHomeFetch # 0
    /\ fetches[FirstHomeFetch].done
    /\ ~fetches[FirstHomeFetch].threw
    /\ \/ fetches[FirstHomeFetch].status \in {401, 403}
       \/ fetches[FirstHomeFetch].text = ProtectionDoc

\* C19, as the specification states it: once the sitemap stage has recorded
\* blocked = true, no homepage fetch carrying the bypass cookie is issued.
C19_AsStated ==
    (blocked /\ blocked_reason \cap SitemapReasons # {}) => ~HomeRetryIssued

\* C19: when the homepage response is detected as blocked, the homepage is fetched again
\* with the bypass cookie exactly when a cookie is available, whether or not the sitemap
\* stage has recorded blocked = true; no such fetch is issued otherwise.
C19_HomeRetryIffCookie ==
    /\ HomeRetryIssued <=> (HomeDetectedBlocked /\ bypassCookie # {})
    /\ \A i \in 1..Len(fetches) :
          (fetches[i].url = HomeUrl /\ fetches[i].cookie # {}) =>
             (i = FirstHomeFetch + 1 /\ fetches[i].cookie = bypassCookie)

\* the sitemap retry failed, the homepage is a 403, and the homepage retry is awaited
C19_Witness ==
    /\ pc = "r2b"
    /\ blocked
    /\ blocked_reason = {"sitemap_404"}
    /\ Len(fetches) = 4
    /\ fetches[3].url = HomeUrl
    /\ fetches[3].status = 403
    /\ fetches[4].url = HomeUrl
    /\ fetches[4].cookie = bypassCookie
    /\ bypassCookie # {}

\* C20: within a run blocked, once true, stays true and blocked_reason, once set, is not
\* changed; a step of the homepage stage sets the reason only when it is unset, and then
\* to "home_<status>".
C20_FirstBlockerWins ==
    [][/\ blocked => blocked'
       /\ blocked_reason # {} => blocked_reason' = blocked_reason
       /\ (pc \in {"r2", "r2b"} /\ blocked_reason' # blocked_reason) =>
             (blocked_reason = {} /\ blocked_reason' # {} /\ blocked_reason' \subseteq HomeReasons)
       /\ (pc \in {"r1", "r1b"} /\ blocked_reason' # blocked_reason) =>
             (blocked_reason = {} /\ blocked_reason' # {} /\ blocked_reason' \subseteq SitemapReasons)
      ]_vars

\* both stages failed with the cookie: the reason is that of the sitemap retry
C20_Witness ==
    /\ pc = "done"
    /\ Len(fetches) = 4
    /\ fetches[2].status = 404
    /\ fetches[4].status = 403
    /\ ~fetches[4].threw
    /\ blocked
    /\ blocked_reason = {"sitemap_404"}
    /\ TheOne(responses[1].protection).used_bypass_cookie = TRUE

\* C21: the first homepage response is taken as blocked when its status is 401 or 403 or
\* its text holds, in any case of letters, "authentication required" and "vercel"
\* (whatever its status): no link of it is used, and with no bypass cookie the run ends
\* there with blocked = true; a first response that is neither is not taken as blocked.
C21_HomepageBlockDetected ==
    (FirstHomeFetch # 0 /\ fetches[FirstHomeFetch].done /\ ~fetches[FirstHomeFetch].threw) =>
        /\ (HomeDetectedBlocked /\ bypassCookie = {}) =>
              /\ pc = "done"
              /\ Len(fetches) = FirstHomeFetch
              /\ blocked
              /\ discovered = <<>>
              /\ source = "none"
        /\ (HomeDetectedBlocked /\ bypassCookie # {}) =>
              /\ Len(fetches) > FirstHomeFetch
              /\ (pc = "r2b" => discovered = <<>>)
        /\ ~HomeDetectedBlocked =>
              /\ Len(fetches) = FirstHomeFetch
              /\ blocked_reason \cap HomeReasons = {}

\* the sitemap is a 404, the homepage a protection page of status 200, no cookie
C21_Witness ==
    /\ pc = "done"
    /\ bypassCookie = {}
    /\ Len(fetches) = 2
    /\ fetches[1].status = 404
    /\ fetches[2].status = 200
    /\ fetches[2].text = ProtectionDoc
    /\ blocked
    /\ blocked_reason = {"home_200"}
    /\ discovered = <<>>

\* C22: a first sitemap response of a status >= 400 that is not 401 or 403 sets neither
\* blocked nor blocked_reason and is not retried: the homepage is fetched next, without
\* the cookie, blocked being false.
C22_SitemapErrorNoBlock ==
    (/\ Len(fetches) >= 1
     /\ fetches[1].done
     /\ ~fetches[1].threw
     /\ fetches[1].status >= 400
     /\ fetches[1].status \notin {401, 403}) =>
        /\ Len(fetches) >= 2
        /\ fetches[2].url = HomeUrl
        /\ fetches[2].cookie = {}
        /\ \A i \in 2..Len(fetches) : fetches[i].url # SitemapUrl
        /\ blocked_reason \cap SitemapReasons = {}
        /\ (Len(fetches) = 2 /\ ~fetches[2].done) => (~blocked /\ blocked_reason = {})

\* a 404 that is a protection page, for a host that has a cookie: the homepage is awaited
C22_Witness ==
    /\ pc = "r2"
    /\ bypassCookie # {}
    /\ Len(fetches) = 2
    /\ fetches[1].status = 404
    /\ fetches[1].text = ProtectionDoc
    /\ fetches[2].url = HomeUrl
    /\ ~blocked


-----------------------------------------------------------------------------
(* Properties of the bounded fetcher (specification SpecPure) *)

\* the bytes of the values that the first n reads give
RECURSIVE BytesUpTo(_, _)
BytesUpTo(values, n) ==
    IF n = 0 THEN 0
    ELSE BytesUpTo(values, n - 1) + (IF values[n] = {} THEN 0 ELSE Len(TheOne(values[n])))

\* the first read whose chunk takes the running total over the budget
FirstOverBudget(values, maxBytes) ==
    minOr({n \in 1..Len(values) : BytesUpTo(values, n) > maxBytes}, Len(values) + 1)

\* the chunks of the reads before the n-th, put together
RECURSIVE TextBefore(_, _)
TextBefore(values, n) ==
    IF n <= 1 THEN ""
    ELSE TextBefore(values, n - 1)
           \o (IF values[n - 1] = {} THEN "" ELSE TheOne(values[n - 1]))

\* C23: on the streaming path fetchText stops at the first chunk that takes the running
\* total of bytes over maxBytes: no read is issued after that one, and when it returns the
\* text is the chunks read before that one put together, so it has at most maxBytes bytes
\* and is empty when the first chunk alone is over the budget; the status returned is
\* that of the response.
C23_StreamStopsOverBudget ==
    (call.fn = "fetchText" /\ call.res.reader) =>
        /\ fetcher.reads <= FirstOverBudget(call.res.values, call.maxBytes)
        /\ (Len(ret) = 1 /\ ~ret[1].threw) =>
              /\ fetcher.reads = FirstOverBudget(call.res.values, call.maxBytes)
              /\ ret[1].text = TextBefore(call.res.values,
                                          FirstOverBudget(call.res.values, call.maxBytes))
              /\ Len(ret[1].text) <= call.maxBytes
              /\ ret[1].status = call.res.status

\* a 403 whose second chunk goes over a budget of 3 bytes, a third chunk would have fitted
C23_Witness ==
    /\ call.fn = "fetchText"
    /\ call.res = [status |-> 403, reader |-> TRUE, values |-> <<{"bc"}, {"def"}, {"a"}>>]
    /\ call.maxBytes = 3
    /\ fetcher.at = "returned"
    /\ fetcher.reads = 2
    /\ ret = <<Returned(403, "bc")>>


-----------------------------------------------------------------------------
(* Properties of the sequence of fetches (specification Spec) *)

\* the place of a fetch in the order sitemap, sitemap with cookie, homepage, homepage
\* with cookie; 0 for any other fetch
StageOf(f) ==
    IF f.url = SitemapUrl THEN (IF f.cookie = {} THEN 1 ELSE 2)
    ELSE IF f.url = HomeUrl THEN (IF f.cookie = {} THEN 3 ELSE 4)
    ELSE 0

Pending == {i \in 1..Len(fetches) : ~fetches[i].done}

C24_Sequential ==
    /\ Len(fetches) <= 4
    /\ \A i \in 1..Len(fetches) : StageOf(fetches[i]) # 0
    /\ Len(fetches) >= 1 => StageOf(fetches[1]) = 1
    /\ \A i, j \in 1..Len(fetches) : i < j => StageOf(fetches[i]) < StageOf(fetches[j])
    /\ Pending \subseteq {Len(fetches)}
    /\ inflight = Cardinality(Pending)
    /\ pc \in {"r1", "r1b", "r2", "r2b"} => Pending = {Len(fetches)}
    /\ pc = "done" => (Pending = {} /\ Len(responses) = 1)

\* the steps that a run can still take: a bound that every step lowers
StepsLeft ==
    CASE pc = "init" -> 5
      [] pc = "r1" -> 4
      [] pc = "r1b" -> 3
      [] pc = "r2" -> 2
      [] pc = "r2b" -> 1
      [] pc = "done" -> 0

\* C24: the fetches of a run are sequential and bounded: at most four, in the order
\* sitemap, sitemap with cookie, homepage, homepage with cookie, each issued only when
\* the one before has returned or thrown, at most one in flight at any time; and when
\* every fetch returns or throws the run ends with a response: a run that has not ended
\* waits for its one pending fetch, each return or throw of a fetch takes it a step on,
\* there are at most five steps, and the last one sends the response.
C24_SequentialAndTerminates ==
    [] C24_Sequential /\ [][StepsLeft' < StepsLeft]_vars

\* all four fetches have been made, in order, and the run has answered
C24_Witness ==
    /\ pc = "done"
    /\ Len(fetches) = 4
    /\ [i \in 1..4 |-> StageOf(fetches[i])] = <<1, 2, 3, 4>>
    /\ \A i \in 1..4 : fetches[i].done
    /\ inflight = 0
    /\ Len(responses) = 1


\* the i-th fetch has returned a response that its stage detects as blocked
DetectedBlockedAt(i) ==
    /\ fetches[i].done
    /\ ~fetches[i].threw
    /\ \/ fetches[i].status \in {401, 403}
       \/ fetches[i].url = HomeUrl /\ fetches[i].text = ProtectionDoc

\* C25: the bypass cookie is never sent on the first attempt of a stage: a fetch carries
\* it only as the retry of the URL of the fetch just before it, which went without the
\* cookie and whose response was detected as blocked (401 or 403, or the protection
\* signature for the homepage); each URL is retried with the cookie at most once.
C25_CookieOnlyOnRetry ==
    /\ \A i \in 1..Len(fetches) :
          fetches[i].cookie # {} =>
              /\ fetches[i].cookie = bypassCookie
              /\ i > 1
              /\ fetches[i - 1].url = fetches[i].url
              /\ fetches[i - 1].cookie = {}
              /\ DetectedBlockedAt(i - 1)
    /\ \A i, j \in 1..Len(fetches) :
          (fetches[i].cookie # {} /\ fetches[j].cookie # {} /\ fetches[i].url = fetches[j].url)
              => i = j

\* both stages were retried with the cookie, the homepage after a protection page of
\* status 200, although the sitemap retry had already recorded the block
C25_Witness ==
    /\ Len(fetches) = 4
    /\ fetches[1].status = 403
    /\ fetches[2].cookie # {}
    /\ fetches[2].status = 401
    /\ blocked
    /\ fetches[3].cookie = {}
    /\ fetches[3].status = 200
    /\ fetches[3].text = ProtectionDoc
    /\ fetches[4].cookie # {}
    /\ fetches[4].url = HomeUrl


CookieFetchIssued == \E i \in 1..Len(fetches) : fetches[i].cookie # {}

\* C26: when the response reports diagnostics.protection.used_bypass_cookie = true, a
\* fetch carrying the bypass cookie was issued in the run; when it reports false, no
\* fetch carried a cookie.
C26_UsedBypassCookie ==
    \A i \in 1..Len(responses) :
        (responses[i].code = 200) =>
            \A p \in responses[i].protection :
                p.used_bypass_cookie <=> CookieFetchIssued

\* a cookie exists, the sitemap was not blocked, the homepage retry failed
C26_Witness ==
    /\ pc = "done"
    /\ Len(fetches) = 3
    /\ fetches[1].status = 404
    /\ fetches[2].status = 403
    /\ fetches[3].cookie # {}
    /\ fetches[3].status = 403
    /\ Len(responses) = 1
    /\ responses[1].protection =
          {[blocked |-> TRUE, blocked_reason |-> {"home_403"}, used_bypass_cookie |-> TRUE]}


\* the host of a URL of the form scheme://host/path, as written
HostPart(u) ==
    SubSeq(u, indexOfFrom(u, "://", 1) + 3,
           firstOf(u, {"/"}, indexOfFrom(u, "://", 1) + 3) - 1)

\* C27: every URL of the returned crawl_plan has the hostname of the normalized origin,
\* whether it comes from the sitemap, from the links of the homepage or from the
\* synthetic list.
C27_PlanOnOriginHost ==
    \A i \in 1..Len(responses) :
        responses[i].code = 200 =>
            \A u \in Range(PlanUrls(responses[i])) : HostPart(u) = HostPart(absolute)


Returned401or403(i) ==
    fetches[i].done /\ ~fetches[i].threw /\ fetches[i].status \in {401, 403}

\* the fetch after the i-th is its retry with the cookie, and it threw or returned a
\* status < 400
RetryGotThrough(i) ==
    /\ i < Len(fetches)
    /\ fetches[i + 1].url = fetches[i].url
    /\ fetches[i + 1].cookie # {}
    /\ fetches[i + 1].done
    /\ (fetches[i + 1].threw \/ fetches[i + 1].status < 400)

NothingDiscovered ==
    /\ pc = "done"
    /\ Len(responses) = 1
    /\ responses[1].code = 200
    /\ responses[1].source = "none"

\* C28, as stated: when a fetch of the run returned 401 or 403 and the run ends with
\* nothing discovered, the response reports blocked = true.
C28_AsStated ==
    (NothingDiscovered /\ \E i \in 1..Len(fetches) : Returned401or403(i)) =>
        responses[1].blocked

\* C28, amended: when a fetch of the run returned 401 or 403, its retry with the bypass
\* cookie neither threw nor returned a status < 400, and the run ends with nothing
\* discovered, the response reports blocked = true.
C28_BlockedUnlessRetryGotThrough ==
    (NothingDiscovered
       /\ \E i \in 1..Len(fetches) : Returned401or403(i) /\ ~RetryGotThrough(i)) =>
        responses[1].blocked

\* the sitemap throws, the homepage is a 401 whose retry with the cookie is a 403
C28_Witness ==
    /\ NothingDiscovered
    /\ Len(fetches) = 3
    /\ fetches[1].threw
    /\ fetches[2].status = 401
    /\ fetches[3].cookie # {}
    /\ fetches[3].status = 403
    /\ responses[1].blocked


\* the one link of the protection page of the model, resolved against the origin
ProtectionPageLink == absolute \o "/login"

\* C29: no URL of the crawl_plan is extracted from a homepage document that matches the
\* protection signature, be it the first homepage response or the response to the retry
\* with the bypass cookie.
C29_NoLinksFromProtectionPage ==
    \A i \in 1..Len(fetches) :
        (/\ fetches[i].url = HomeUrl
         /\ fetches[i].done
         /\ ~fetches[i].threw
         /\ fetches[i].text = ProtectionDoc) =>
            \A k \in 1..Len(responses) :
                responses[k].code = 200 =>
                    ProtectionPageLink \notin Range(PlanUrls(responses[k]))


-----------------------------------------------------------------------------
(* Properties of the agent tool loops (specification SpecAgent) *)

\* the length that messages has when the first j assistant messages received and the
\* answers to their tool calls follow the initial messages
RECURSIVE LengthAfter(_)
LengthAfter(j) ==
    IF j = 0 THEN Len(InitialMessages)
    ELSE LengthAfter(j - 1) + 1 + Len(received[j])

\* the j-th assistant message received stands in messages, followed by one tool message
\* for each of its tool calls, of the same tool_call_id and in the order of the calls
AnsweredInOrder(j) ==
    /\ LengthAfter(j) <= Len(messages)
    /\ messages[LengthAfter(j - 1) + 1].role = "assistant"
    /\ messages[LengthAfter(j - 1) + 1].tool_calls = received[j]
    /\ \A q \in 1..Len(received[j]) :
          /\ messages[LengthAfter(j - 1) + 1 + q].role = "tool"
          /\ messages[LengthAfter(j - 1) + 1 + q].tool_call_id = {received[j][q].id}

\* C30: at every model call of an agent tool loop each tool call of every assistant
\* message received before has been answered by exactly one tool message of the same
\* tool_call_id, appended after that assistant message and in the order of the calls;
\* a request makes at most 8 model calls, and the loop stops at the first assistant
\* message without tool calls.
C30_ToolCallsAnswered ==
    /\ apc = "model" =>
          /\ \A j \in 1..Len(received) : AnsweredInOrder(j)
          /\ Len(messages) = LengthAfter(Len(received))
          /\ \A j \in 1..Len(received) : Len(received[j]) # 0
    /\ modelCalls <= MAX_TURNS
    /\ \A j \in 1..(Len(received) - 1) : Len(received[j]) # 0

\* the same, of every loop but that of part_002 296-435
ToolCallsAnsweredWhereAssistantIsPushed == file # "part_002:296" => C30_ToolCallsAnswered

\* the older copies of chat.ts make at most 6 model calls
OlderCopiesStopAtSix == file \in {"part_002:465", "part_004:63"} => modelCalls <= OlderTurns

\* the second model call of part_002 296-435 after a call of a tool it does not know:
\* the tool message stands in messages, the assistant message does not
UnknownToolAnsweredWithoutAssistant ==
    /\ file = "part_002:296"
    /\ apc = "model"
    /\ modelCalls = 2
    /\ received = << <<ToolCall("call_p", "lookup", "{}")>> >>
    /\ messages = <<Msg("system", <<>>, {}), Msg("user", <<>>, {}), Msg("tool", <<>>, {"call_p"})>>

\* run.ts has pushed the undefined message before it answers 500
UndefinedPushed ==
    /\ file = "run.ts"
    /\ apc = "done"
    /\ Len(messages) > 0
    /\ messages[Len(messages)] = UndefinedMessage
    /\ agentResponses[1].code = 500

\* the eighth model call of run.ts, after seven assistant messages with tool calls
EighthModelCall ==
    /\ file = "run.ts"
    /\ apc = "model"
    /\ modelCalls = MAX_TURNS
    /\ Len(received) = 7
    /\ Len(messages) = 2 + 7 * 3

\* the sixth model call of part_004, the last one its loop makes
SixthModelCall ==
    /\ file = "part_004:63"
    /\ apc = "model"
    /\ modelCalls = OlderTurns
    /\ turn = OlderTurns - 1

=============================================================================
